---- MODULE Spec2Model ----
(***************************************************************************)
(* Model of the proxy-subscription cache of stash-rule: the Redis-backed    *)
(* per-URL cache (internal/store), the refresh engine and its daily         *)
(* scheduler (internal/service/proxy_cache.go) and the HTTP handlers that   *)
(* call them.  Every action is one step that touches shared state (the      *)
(* Redis store, the refresh mutex, the wall clock, a remote feed); the      *)
(* goroutine-local computation around it is folded into the step.           *)
(***************************************************************************)
EXTENDS Integers, Sequences, FiniteSets, TLC

(***************************************************************************)
(* Bounds of the model.                                                     *)
(***************************************************************************)
\* number of events of a run: requests and scheduler ticks started, stored
\* url lists replaced, clock advances, failed store commands
MaxEvents == 3

\* length of the url lists given to normalizeSubscribeURLs and of the texts
\* given to the text functions on their own
MaxLen == 4

\* number of lines of the subscription bodies given to parseSubscription
MaxLines == 2

\* length of the node names given to classifyProxyName, beside the examples
MaxName == 4

(***************************************************************************)
(* Program constants.  Time is counted in hours.                            *)
(***************************************************************************)
proxyCacheRefreshInterval == 24
proxyCacheSchedulerTick == 1

(***************************************************************************)
(* Strings are sequences of characters, so that TrimSpace is computed.      *)
(***************************************************************************)
urlA == <<"a">>
urlB == <<"b">>
urlC == <<"c">>
urlApadded == <<" ", "a">>
urlBlank == <<" ">>

\* The lists the administrator may store under the subscribe-urls key.
OneSource == <<urlA>>
TwoSources == <<urlApadded, urlBlank, urlA, urlB>>

SourceLists == { <<>>, TwoSources }

ThreeSources == <<urlA, urlB, urlC>>

\* Nodes as the subscription parser returns them: the port is a Go int.
Node(name) == [name |-> name, port |-> <<"int", 443>>]

\* What a successful fetch of url u parses to.  The feed of "b" holds no
\* line that decodes: parseSubscription returns its nil slice.
Feed(u) ==
    CASE u = urlA -> << Node("a1") >>
      [] u = urlB -> << >>
      [] u = urlC -> << Node("c1"), Node("c2") >>

Feeds(u) == { Feed(u) }

\* Error string of a failed fetch (non-200 status).
FetchErrors == { "status code: 500" }

RedisError == "redis unavailable"

\* Goroutines: the scheduler, the POST /api/proxy/cache handler, a
\* configuration request and the GET /api/proxy/cache handler.
SchedProcs == { "sched" }
ManualProcs == { "manual" }
CfgProcs == { "cfg1" }
StatusProcs == { "status" }
Procs == SchedProcs \cup ManualProcs \cup CfgProcs \cup StatusProcs

NoProc == "none"

VARIABLES
    \* ---- Redis store
    sources,            \* value of the subscribe-urls key (a list of strings)
    cacheData,          \* hash proxy_cache:data        url -> encoded nodes
    cacheUpdated,       \* hash proxy_cache:updated_at  url -> unix time
    lastRunKey,         \* key proxy_cache:last_run, 0 when absent
    \* ---- process-wide
    clock,              \* wall clock
    proxyCacheRefreshMu,\* owner of the refresh mutex, NoProc when free
    \* ---- per goroutine
    pc,                 \* position of each goroutine
    urls,               \* the subscribe urls the goroutine read
    normalizedURLs,     \* the urls of the goroutine's refresh batch
    refreshedAt,        \* the batch's timestamp
    workers,            \* per-url worker goroutines of the batch
    ch,                 \* the batch's result channel, in completion order
    result,             \* ProxyCacheRefreshResult and error returned
    idx,                \* position of the goroutine's loop over its urls
    missing,            \* BuildProxiesFromCache: urls without an entry
    all,                \* BuildProxiesFromCache: the nodes collected
    statuses,           \* ListProxyCacheStatus: the statuses collected
    got,                \* what the goroutine's GetProxyCache call read
    sched,              \* the scheduler's now, ticker and decision
    active,             \* the goroutines that run
    \* ---- bookkeeping for the properties
    events,             \* events so far
    batchSeq,           \* number of batches that acquired the mutex
    batchNo,            \* per goroutine: number of its current batch
    lastRunBatch,       \* batch that wrote lastRunKey last, 0 if none
    snapData,           \* cacheData when the goroutine's batch began
    snapUpdated,        \* cacheUpdated when the goroutine's batch began
    saved,              \* every (url, data, time) given to SaveProxyCache
    \* ---- the pure functions, called on their own
    arg,                \* the arguments of the call
    ret,                \* what the call returned, NotCalled before it
    \* ---- Redis store: subscribers, sessions, admin, profiles
    tokenHash,          \* hash subscriber_tokens        token -> username
    userTokenHash,      \* hash of the subscribers       username -> token
    userProfileHash,    \* hash of their profiles        username -> profile
    sessionKeys,        \* keys session:<token>          token -> username
    adminUsername,      \* field username of the admin hash, "" when absent
    profileHash,        \* hash of the stash profiles    name -> YAML text
    \* ---- the request HandleGetConfig is serving
    req

vars == << sources, cacheData, cacheUpdated, lastRunKey, clock,
           proxyCacheRefreshMu, pc, urls, normalizedURLs, refreshedAt,
           workers, ch, result, idx, missing, all, statuses, got, sched,
           active, events, batchSeq, batchNo, lastRunBatch,
           snapData, snapUpdated, saved, arg, ret,
           tokenHash, userTokenHash, userProfileHash, sessionKeys,
           adminUsername, profileHash, req >>

storeVars == << sources, cacheData, cacheUpdated, lastRunKey >>
ghostBatchVars ==
    << batchSeq, batchNo, lastRunBatch, snapData, snapUpdated, saved >>
batchVars == << normalizedURLs, refreshedAt, workers, ch >>
readVars == << idx, missing, all, statuses, got >>
fnVars == << arg, ret >>
subscriberVars == << tokenHash, userTokenHash, userProfileHash >>
authVars == << tokenHash, userTokenHash, userProfileHash, sessionKeys,
               adminUsername >>
webVars == << authVars, profileHash, req >>
progVars ==
    << sources, cacheData, cacheUpdated, lastRunKey, clock,
       proxyCacheRefreshMu, pc, urls, normalizedURLs, refreshedAt,
       workers, ch, result, idx, missing, all, statuses, got, sched,
       active, events, batchSeq, batchNo, lastRunBatch,
       snapData, snapUpdated, saved, webVars >>
\* what the web layer leaves alone: the cache, the batches and the readers
cacheVars ==
    << sources, cacheData, cacheUpdated, lastRunKey, clock,
       proxyCacheRefreshMu, pc, urls, normalizedURLs, refreshedAt,
       workers, ch, result, idx, missing, all, statuses, got, sched,
       active, batchSeq, batchNo, lastRunBatch,
       snapData, snapUpdated, saved >>

\* no call of a pure function on its own has been made
NotCalled == [called |-> FALSE]
\* n more events of the run
Spend(n) == events + n <= MaxEvents /\ events' = events + n

\* a store command succeeds, or fails because the connection is down
StoreOk == UNCHANGED events
StoreFault == Spend(1)

Range(s) == { s[i] : i \in 1..Len(s) }

(***************************************************************************)
(* strings.TrimSpace                                                        *)
(***************************************************************************)
\* the white space of the model: the space and the line feed
WhiteSpace == { " ", "LF" }

RECURSIVE TrimLeft(_)
TrimLeft(s) ==
    IF s # <<>> /\ Head(s) \in WhiteSpace THEN TrimLeft(Tail(s)) ELSE s

RECURSIVE TrimRight(_)
TrimRight(s) ==
    IF s # <<>> /\ s[Len(s)] \in WhiteSpace
    THEN TrimRight(SubSeq(s, 1, Len(s) - 1))
    ELSE s

TrimSpace(s) == TrimRight(TrimLeft(s))

normalizeCacheURL(u) == TrimSpace(u)

(***************************************************************************)
(* normalizeSubscribeURLs: trim, drop blanks, drop duplicates keeping the   *)
(* first occurrence.                                                        *)
(***************************************************************************)
\* lines 44-59 without the seen map
RECURSIVE normalizeLoopKeepsDuplicates(_, _)
normalizeLoopKeepsDuplicates(rest, out) ==
    IF rest = <<>> THEN out
    ELSE LET url == TrimSpace(Head(rest)) IN
         IF url = <<>> THEN normalizeLoopKeepsDuplicates(Tail(rest), out)
         ELSE normalizeLoopKeepsDuplicates(Tail(rest), Append(out, url))

RECURSIVE normalizeLoop(_, _)
normalizeLoop(rest, out) ==
    IF rest = <<>> THEN out
    ELSE LET url == TrimSpace(Head(rest)) IN
         IF url = <<>> THEN normalizeLoop(Tail(rest), out)
         ELSE IF url \in Range(out) THEN normalizeLoop(Tail(rest), out)
         ELSE normalizeLoop(Tail(rest), Append(out, url))

normalizeSubscribeURLs(list) == normalizeLoop(list, <<>>)

\* the strings of the lists normalizeSubscribeURLs is called on: padded on
\* either side, blank, empty, and differing in case only
URLStrings ==
    { urlA, urlB, urlApadded, << "a", " " >>, urlBlank, << >>, << "A" >> }

RECURSIVE ListsOf(_, _)
ListsOf(S, n) ==
    IF n = 0 THEN { << >> }
    ELSE LET shorter == ListsOf(S, n - 1) IN
         shorter \cup { Append(l, x) : l \in shorter, x \in S }

(***************************************************************************)
(* The subscription parser.  A body is given by what it decodes to: the     *)
(* proxies of a YAML document, or its lines; a line by its scheme and by    *)
(* what its payload decodes to.  Servers and ports are character sequences, *)
(* so that strconv.Atoi is computed.                                        *)
(***************************************************************************)
Digit ==
    [c \in {"0", "1", "2", "3", "4", "5", "6", "7", "8", "9"} |->
        CASE c = "0" -> 0 [] c = "1" -> 1 [] c = "2" -> 2 [] c = "3" -> 3
          [] c = "4" -> 4 [] c = "5" -> 5 [] c = "6" -> 6 [] c = "7" -> 7
          [] c = "8" -> 8 [] c = "9" -> 9]

RECURSIVE DigitsValue(_)
DigitsValue(s) ==
    IF s = << >> THEN 0
    ELSE 10 * DigitsValue(SubSeq(s, 1, Len(s) - 1)) + Digit[s[Len(s)]]

\* strconv.Atoi: the value, 0 with an error when s is not a number
Atoi(s) ==
    IF s # << >> /\ \A i \in DOMAIN s : s[i] \in DOMAIN Digit
    THEN [val |-> DigitsValue(s), ok |-> TRUE]
    ELSE [val |-> 0, ok |-> FALSE]

host == << "h" >>
port80 == << "8", "0" >>
portBad == << "x" >>

\* lines 381-388
getString(data, key, defaultValue) ==
    IF key \in DOMAIN data /\ data[key][1] = "string"
    THEN data[key][2] ELSE defaultValue

\* lines 390-404
getInt(data, key, defaultValue) ==
    IF key \notin DOMAIN data THEN defaultValue
    ELSE CASE data[key][1] \in {"float64", "int"} -> data[key][2]
           [] data[key][1] = "string" ->
                IF Atoi(data[key][2]).ok THEN Atoi(data[key][2]).val
                ELSE defaultValue
           [] OTHER -> defaultValue

\* a line that yields no node
nil == [type |-> "nil"]

NotBase64 == [err |-> "illegal base64 data"]
NotJSON == [err |-> "invalid character"]
NotURL == [err |-> "invalid port"]

\* lines 143-198: the payload is base64 of a JSON object
parseVMess(line) ==
    IF line.payload \in {NotBase64, NotJSON} THEN nil
    ELSE [name |-> getString(line.payload, "ps", "VMess"),
          type |-> "vmess",
          server |-> getString(line.payload, "add", << >>),
          port |-> << "int", getInt(line.payload, "port", 443) >>]

\* lines 200-250: the line is parsed as a url
parseTrojan(line) ==
    IF line.payload = NotURL THEN nil
    ELSE [name |-> "Trojan",
          type |-> "trojan",
          server |-> line.payload.hostname,
          port |-> << "int", IF line.payload.port # << >>
                            THEN Atoi(line.payload.port).val ELSE 443 >>]

\* lines 252-330: method, server and port as the splitting of either form
\* found them
parseSS(line) ==
    IF line.payload.server = << >> \/ line.payload.method = ""
    THEN nil
    ELSE [name |-> "SS",
          type |-> "ss",
          server |-> line.payload.server,
          port |-> << "int", Atoi(line.payload.port).val >>]

\* lines 332-377: the payload is base64 of server:port:protocol:method:...
parseSSR(line) ==
    IF line.payload = NotBase64 THEN nil
    ELSE IF Len(line.payload.parts) < 6 THEN nil
    ELSE [name |-> "SSR",
          type |-> "ssr",
          server |-> line.payload.parts[1],
          port |-> << "int", Atoi(line.payload.parts[2]).val >>]

\* lines 130-141
parseURI(line) ==
    CASE line.scheme = "vmess" -> parseVMess(line)
      [] line.scheme = "trojan" -> parseTrojan(line)
      [] line.scheme = "ss" -> parseSS(line)
      [] line.scheme = "ssr" -> parseSSR(line)
      [] OTHER -> nil

\* lines 115-125
RECURSIVE parseLines(_)
parseLines(lines) ==
    IF lines = << >> THEN << >>
    ELSE LET proxy == parseURI(Head(lines)) IN
         (IF proxy # nil THEN << proxy >> ELSE << >>)
            \o parseLines(Tail(lines))

\* lines 89-128
parseSubscription(content) ==
    IF Len(content.proxies) > 0 THEN content.proxies
    ELSE parseLines(content.lines)

\* what the JSON object of a vmess line may hold under "add" and "port"
VMessObjects ==
    { [k \in {} |-> << >>],
      [add |-> << "string", host >>],
      [port |-> << "float64", 80 >>],
      [add |-> << "string", host >>, port |-> << "float64", 80 >>],
      [add |-> << "string", host >>, port |-> << "string", port80 >>],
      [add |-> << "string", host >>, port |-> << "string", portBad >>],
      [add |-> << "string", << >> >>, port |-> << "string", port80 >>],
      [add |-> << "float64", 1 >>, port |-> << "bool", TRUE >>] }

Lines ==
    { [scheme |-> "vmess", payload |-> d] :
          d \in VMessObjects \cup {NotBase64, NotJSON} }
    \cup { [scheme |-> "trojan", payload |-> NotURL] }
    \cup { [scheme |-> "trojan", payload |-> [hostname |-> h, port |-> q]] :
              h \in {host, << >>}, q \in {port80, << >>} }
    \cup { [scheme |-> "ss",
            payload |-> [method |-> m, server |-> h, port |-> q]] :
              m \in {"aes-256-gcm", ""}, h \in {host, << >>},
              q \in {port80, portBad} }
    \cup { [scheme |-> "ssr", payload |-> NotBase64] }
    \cup { [scheme |-> "ssr", payload |-> [parts |-> << host, port80 >>]] }
    \cup { [scheme |-> "ssr",
            payload |-> [parts |-> << h, q, "origin", "rc4", "plain", "" >>]] :
              h \in {host, << >>}, q \in {port80, portBad} }
    \cup { [scheme |-> "http", payload |-> NotURL] }

\* the entries of the proxies key of a YAML document, as written there
YAMLProxies ==
    { [name |-> "n", type |-> "ss", server |-> host,
       port |-> << "int", 80 >>],
      [name |-> "n", type |-> "ss", port |-> << "string", port80 >>],
      [name |-> "n"] }

Contents ==
    { [proxies |-> << >>, lines |-> l] : l \in ListsOf(Lines, MaxLines) }
    \cup { [proxies |-> y, lines |-> << >>] :
              y \in ListsOf(YAMLProxies, MaxLines) }

(***************************************************************************)
(* DeepMergeMap.  A value of a configuration map is a scalar, a sequence of *)
(* values or a map from strings to values, tagged with its kind; a nil map  *)
(* has a kind of its own.                                                   *)
(***************************************************************************)
Scalar(n) == << "scalar", n >>
Slice(items) == << "seq", items >>
Map(m) == << "map", m >>
NilMap == << "nil" >>
NoKeys == [k \in {} |-> NilMap]

\* the map m with key set to value
setKey(m, key, value) ==
    [k \in DOMAIN m \cup {key} |-> IF k = key THEN value ELSE m[k]]

\* lines 101-118 and 149-169: the kind of a value
isStringMap(value) == value[1] = "map"
isInterfaceSlice(value) == value[1] \in {"seq", "strings", "nodes", "maps"}

\* lines 120-147
RECURSIVE cloneValue(_)
cloneValue(value) ==
    CASE value[1] = "map" ->
           Map([k \in DOMAIN value[2] |-> cloneValue(value[2][k])])
      [] value[1] = "seq" ->
           Slice([i \in 1..Len(value[2]) |-> cloneValue(value[2][i])])
      [] OTHER -> value

\* the items of base before those of override
mergeSlicesBaseFirst(base, override) ==
    [i \in 1..Len(base) |-> cloneValue(base[i])]
       \o [i \in 1..Len(override) |-> cloneValue(override[i])]

\* lines 171-180
mergeSlices(base, override) ==
    [i \in 1..Len(override) |-> cloneValue(override[i])]
       \o [i \in 1..Len(base) |-> cloneValue(base[i])]

RECURSIVE DeepMergeMap(_, _)
RECURSIVE mergeLoop(_, _, _)

\* lines 206-222: the loop over the keys of override that are left
mergeLoop(res, override, keys) ==
    IF keys = {} THEN Map(res)
    ELSE LET key == CHOOSE k \in keys : TRUE
             overrideValue == override[key]
             exists == key \in DOMAIN res
             merged ==
               IF exists /\ isStringMap(res[key])
                         /\ isStringMap(overrideValue)
               THEN DeepMergeMap(res[key], overrideValue)
               ELSE IF exists /\ isInterfaceSlice(res[key])
                              /\ isInterfaceSlice(overrideValue)
               THEN Slice(mergeSlices(res[key][2], overrideValue[2]))
               ELSE cloneValue(overrideValue)
         IN mergeLoop(setKey(res, key, merged), override, keys \ {key})

\* lines 185-225 with an empty map returned whenever an argument is nil
DeepMergeMapEmptyOnNil(base, override) ==
    IF base = NilMap \/ override = NilMap THEN Map(NoKeys)
    ELSE mergeLoop([k \in DOMAIN base[2] |-> cloneValue(base[2][k])],
                   override[2], DOMAIN override[2])

\* lines 185-225
DeepMergeMap(base, override) ==
    IF base = NilMap /\ override = NilMap THEN Map(NoKeys)
    ELSE IF base = NilMap THEN cloneValue(override)
    ELSE IF override = NilMap THEN cloneValue(base)
    ELSE mergeLoop([k \in DOMAIN base[2] |-> cloneValue(base[2][k])],
                   override[2], DOMAIN override[2])

\* the maps over the keys of K with values of V
MapsOver(K, V) == UNION { [D -> V] : D \in SUBSET K }

\* the values of the maps DeepMergeMap is called on: scalars, sequences
\* (one with a repeated item) and maps of scalars and sequences
Leaves ==
    { Scalar(1), Scalar(2), Slice(<< >>), Slice(<< Scalar(1) >>),
      Slice(<< Scalar(2), Scalar(1), Scalar(2) >>) }

Inner == { Map(m) : m \in MapsOver({"x"}, Leaves) }
           \cup { Map([x |-> Scalar(1), y |-> Slice(<< Scalar(2) >>)]),
                  Map([y |-> Scalar(2)]) }

ConfigMaps ==
    { NilMap } \cup { Map(m) : m \in MapsOver({"a", "b"}, Leaves \cup Inner) }

\* merge({a:[1,2], b:{x:1}}, {a:[3], b:{y:2}, c:5})
ExampleBase ==
    Map([a |-> Slice(<< Scalar(1), Scalar(2) >>),
         b |-> Map([x |-> Scalar(1)])])
ExampleOverlay ==
    Map([a |-> Slice(<< Scalar(3) >>), b |-> Map([y |-> Scalar(2)]),
         c |-> Scalar(5)])

\* Values with an identity.  A map or sequence that the caller holds carries
\* its address as a third component; what cloneValue, mergeSlices and
\* DeepMergeMap make is new and carries none.  Beside the generic kinds
\* there are the typed ones of BuildConfigMap: []string, []ProxyNode with
\* its ProxyNode maps, and []map[string]interface{}.
At(value, addr) == << value[1], value[2], addr >>
Strings(items, addr) == << "strings", items, addr >>
ProxyNodeAt(m, addr) == << "node", m, addr >>
Nodes(items, addr) == << "nodes", items, addr >>
Maps(items, addr) == << "maps", items, addr >>

\* lines 45-89: the values of the generated base, by key
GeneratedValue ==
    [dns |-> At(Map([nameserver |-> Strings(<< Scalar(1), Scalar(2) >>,
                                            "base.dns.nameserver")]),
                "base.dns"),
     proxies |-> Nodes(<< ProxyNodeAt([name |-> Scalar(1)],
                                      "base.proxies.1") >>,
                       "base.proxies"),
     groups |-> Maps(<< At(Map([proxies |-> Strings(<< Scalar(1) >>,
                                             "base.groups.1.proxies")]),
                           "base.groups.1") >>,
                     "base.groups"),
     mode |-> Scalar(1)]

\* a base of the generated shape with the keys of D
GeneratedBase(D) == At(Map([k \in D |-> GeneratedValue[k]]), "base")

\* what a profile document decoded from YAML may hold under a key
OverlayValues(k) ==
    { Scalar(2),
      At(Slice(<< Scalar(3) >>), "overlay." \o k),
      At(Map([nameserver |-> At(Slice(<< Scalar(3) >>),
                                "overlay." \o k \o ".nameserver")]),
         "overlay." \o k) }

OverlayKeys == {"dns", "proxies", "groups"}

Overlays ==
    { NilMap }
    \cup UNION { { At(Map(m), "overlay") :
                     m \in { f \in [D -> UNION { OverlayValues(k) :
                                                   k \in OverlayKeys }] :
                               \A k \in D : f[k] \in OverlayValues(k) } } :
                 D \in SUBSET OverlayKeys }

ShareInputs ==
    { << GeneratedBase(D), o >> :
          D \in SUBSET {"dns", "proxies", "groups", "mode"}, o \in Overlays }

MergeInputs ==
    (ConfigMaps \X ConfigMaps) \cup { << ExampleBase, ExampleOverlay >> }

(***************************************************************************)
(* classifyProxyName.  A name is a sequence of characters; a flag emoji or  *)
(* a Chinese region name is one character of the model.                     *)
(***************************************************************************)
UpperCase ==
    << "A", "B", "C", "D", "E", "F", "G", "H", "I", "J", "K", "L", "M",
       "N", "O", "P", "Q", "R", "S", "T", "U", "V", "W", "X", "Y", "Z" >>
LowerCase ==
    << "a", "b", "c", "d", "e", "f", "g", "h", "i", "j", "k", "l", "m",
       "n", "o", "p", "q", "r", "s", "t", "u", "v", "w", "x", "y", "z" >>
Digits == { "0", "1", "2", "3", "4", "5", "6", "7", "8", "9" }

\* strings.ToLower
LowerOf ==
    [c \in Range(UpperCase) |->
        LowerCase[CHOOSE i \in DOMAIN UpperCase : UpperCase[i] = c]]

ToLowerChar(c) == IF c \in DOMAIN LowerOf THEN LowerOf[c] ELSE c

ToLower(str) == [i \in DOMAIN str |-> ToLowerChar(str[i])]

\* the class [a-z0-9] of a case-insensitive expression
Alnum == Digits \cup Range(LowerCase) \cup Range(UpperCase)

IsAlnum(c) == c \in Alnum

\* strings.Contains
Contains(str, sub) ==
    \E i \in 1..(Len(str) - Len(sub) + 1) :
        SubSeq(str, i, i + Len(sub) - 1) = sub

\* lines 229-236
hasKeyword(name, keywords) ==
    \E keyword \in keywords : Contains(ToLower(name), keyword)

\* the patterns of the earlier generator: the code anywhere in the name
matchCodeAnywhere(name, code) == Contains(ToLower(name), ToLower(code))

\* lines 237-240: (?i)(^|[^a-z0-9])code([^a-z0-9]|$)
matchCodeToken(name, code) ==
    \E i \in 1..(Len(name) - Len(code) + 1) :
        /\ ToLower(SubSeq(name, i, i + Len(code) - 1)) = ToLower(code)
        /\ i = 1 \/ ~IsAlnum(name[i - 1])
        /\ i + Len(code) - 1 = Len(name) \/ ~IsAlnum(name[i + Len(code)])

Regions == { "HK", "TW", "JP", "SG", "US", "KR" }

\* lines 242-249: the keywords and the codes of each region
RegionKeywords ==
    [HK |-> { << "flag-HK" >>,
             << "zh-HK" >>,
             << "h", "o", "n", "g", " ", "k", "o", "n", "g" >> },
     TW |-> { << "flag-TW" >>,
             << "zh-TW" >>,
             << "t", "a", "i", "w", "a", "n" >> },
     JP |-> { << "flag-JP" >>,
             << "zh-JP" >>,
             << "j", "a", "p", "a", "n" >> },
     SG |-> { << "flag-SG" >>,
             << "zh-SG" >>,
             << "zh-SG2" >>,
             << "zh-SG3" >>,
             << "s", "i", "n", "g", "a", "p", "o", "r", "e" >> },
     US |-> { << "flag-US" >>,
             << "zh-US" >>,
             << "u", "n", "i", "t", "e", "d", " ", "s", "t", "a", "t", "e", "s" >>,
             << "a", "m", "e", "r", "i", "c", "a" >> },
     KR |-> { << "flag-KR" >>,
             << "zh-KR" >>,
             << "k", "o", "r", "e", "a" >> }]

RegionCodes ==
    [HK |-> { << "H", "K" >> },
     TW |-> { << "T", "W" >> },
     JP |-> { << "J", "P" >> },
     SG |-> { << "S", "G" >>, << "S", "G", "P" >> },
     US |-> { << "U", "S" >>, << "U", "S", "A" >> },
     KR |-> { << "K", "R" >> }]

\* lines 227-250
classifyProxyName(name) ==
    [r \in Regions |->
        \/ hasKeyword(name, RegionKeywords[r])
        \/ \E code \in RegionCodes[r] : matchCodeToken(name, code)]

NameChars == { "U", "s", "A", "-", "1", "B" }

ExampleNames ==
    { << "U", "S", "-", "0", "1" >>,
      << "B", "O", "N", "U", "S", "-", "1" >>,
      << "U", "S", "A", "G", "E" >>,
      << "h", "k", " ", "U", "S" >>,
      << "1", "-", "s", "g", "p", "-", "1" >>,
      << "u", "s", "a", "_", "2" >>,
      << "N", "o", "r", "t", "h", " ", "A", "m", "e", "r", "i", "c", "a" >>,
      << "flag-US", "B", "O", "N", "U", "S" >>,
      << "zh-HK", "U", "S", "1" >> }

Names == ListsOf(NameChars, MaxName) \cup ExampleNames

(***************************************************************************)
(* buildProxyGroups.  Group names are character sequences like node names;  *)
(* a Chinese word is one character of the model: zh-auto zh-select is the    *)
(* auto-selector, zh-HK zh-node the Hong Kong group, and so on.              *)
(***************************************************************************)
DIRECT == << "D", "I", "R", "E", "C", "T" >>
REJECT == << "R", "E", "J", "E", "C", "T" >>
Proxies == << "P", "r", "o", "x", "i", "e", "s" >>
AutoSelect == << "zh-auto", "zh-select" >>
Final == << "F", "i", "n", "a", "l" >>

\* lines 276-286: regionConfigs, the keys in order and the group name of each
regionConfigs == << "HK", "TW", "JP", "SG", "US", "KR" >>

RegionGroupName ==
    [HK |-> << "zh-HK", "zh-node" >>,
     TW |-> << "zh-TW", "zh-node" >>,
     JP |-> << "zh-JP", "zh-node" >>,
     SG |-> << "zh-SG", "zh-node" >>,
     US |-> << "zh-US", "zh-node" >>,
     KR |-> << "zh-KR", "zh-node" >>]

\* the probe of a latency-based group
probeURL == "http://www.gstatic.com/generate_204"

selectGroup(name, members) ==
    [name |-> name, type |-> "select", proxies |-> members]

urlTestGroup(name, members) ==
    [name |-> name, type |-> "url-test", proxies |-> members,
     url |-> probeURL, interval |-> 300, tolerance |-> 50]

\* BuildConfigMap lines 23-28: the names of the nodes that have one
RECURSIVE proxyNamesOf(_)
proxyNamesOf(proxies) ==
    IF proxies = << >> THEN << >>
    ELSE IF "name" \in DOMAIN Head(proxies)
         THEN << Head(proxies).name >> \o proxyNamesOf(Tail(proxies))
         ELSE proxyNamesOf(Tail(proxies))

\* the names of the regions of `regions' the classification holds for
matchedOf(startRegions, regions) == { r \in regions : startRegions[r] }

\* a grouping that puts a node into one region only
regionGroupsExclusive(proxyNames) ==
    [r \in Regions |->
        SelectSeq(proxyNames,
                  LAMBDA name :
                     /\ classifyProxyName(name)[r]
                     /\ \A k \in 1..Len(regionConfigs) :
                           classifyProxyName(name)[regionConfigs[k]] =>
                              \E j \in 1..k : regionConfigs[j] = r)]

\* BuildConfigMap lines 30-43: every name is appended, in node order, to the
\* list of each region it is classified into
regionGroupsOf(proxyNames) ==
    [r \in Regions |->
        SelectSeq(proxyNames, LAMBDA name : classifyProxyName(name)[r])]

\* an umbrella selector that lists the nodes first
umbrellaMembersNodesFirst(proxyNames) ==
    proxyNames
    \o << AutoSelect >>
    \o [k \in 1..Len(regionConfigs) |-> RegionGroupName[regionConfigs[k]]]
    \o << DIRECT >>

\* lines 259-262
umbrellaMembers(proxyNames) ==
    << AutoSelect >>
    \o [k \in 1..Len(regionConfigs) |-> RegionGroupName[regionConfigs[k]]]
    \o << DIRECT >>
    \o proxyNames

\* lines 288-307: the group of one region
regionGroup(rc, members) ==
    IF Len(members) > 0
    THEN urlTestGroup(RegionGroupName[rc], members)
    ELSE selectGroup(RegionGroupName[rc], << AutoSelect, DIRECT >>)

\* a per-service group that also lists the auto-selector
serviceGroupWithAuto(name, members) ==
    selectGroup(name, Append(members, AutoSelect))

\* lines 310-407: one per-service group
serviceGroup(name, members) == selectGroup(name, members)

\* lines 310-407: the catalog of per-service groups
serviceGroups ==
    << serviceGroup(<< "Y", "o", "u", "T", "u", "b", "e" >>,
                    << Proxies, RegionGroupName.HK, RegionGroupName.JP, RegionGroupName.SG, RegionGroupName.TW, RegionGroupName.US >>),
       serviceGroup(<< "D", "i", "s", "n", "e", "y" >>,
                    << Proxies, RegionGroupName.HK, RegionGroupName.JP, RegionGroupName.SG, RegionGroupName.TW, RegionGroupName.US >>),
       serviceGroup(<< "H", "b", "o", "m", "a", "x" >>,
                    << Proxies, RegionGroupName.HK, RegionGroupName.JP, RegionGroupName.SG, RegionGroupName.TW, RegionGroupName.US >>),
       serviceGroup(<< "N", "e", "t", "f", "l", "i", "x" >>,
                    << Proxies, RegionGroupName.HK, RegionGroupName.JP, RegionGroupName.SG, RegionGroupName.TW, RegionGroupName.US >>),
       serviceGroup(<< "B", "a", "h", "a", "m", "u", "t" >>,
                    << Proxies, RegionGroupName.HK, RegionGroupName.TW >>),
       serviceGroup(<< "B", "i", "l", "i", "b", "i", "l", "i" >>,
                    << DIRECT, RegionGroupName.HK, RegionGroupName.TW >>),
       serviceGroup(<< "S", "p", "o", "t", "i", "f", "y" >>,
                    << Proxies, DIRECT, RegionGroupName.HK, RegionGroupName.JP, RegionGroupName.SG, RegionGroupName.TW, RegionGroupName.US >>),
       serviceGroup(<< "S", "t", "e", "a", "m" >>,
                    << Proxies, DIRECT, RegionGroupName.HK, RegionGroupName.JP, RegionGroupName.SG, RegionGroupName.TW, RegionGroupName.US >>),
       serviceGroup(<< "T", "e", "l", "e", "g", "r", "a", "m" >>,
                    << Proxies, RegionGroupName.HK, RegionGroupName.JP, RegionGroupName.SG, RegionGroupName.TW, RegionGroupName.US >>),
       serviceGroup(<< "G", "o", "o", "g", "l", "e" >>,
                    << Proxies, RegionGroupName.HK, RegionGroupName.JP, RegionGroupName.SG, RegionGroupName.TW, RegionGroupName.US >>),
       serviceGroup(<< "M", "i", "c", "r", "o", "s", "o", "f", "t" >>,
                    << Proxies, DIRECT, RegionGroupName.HK, RegionGroupName.JP, RegionGroupName.SG, RegionGroupName.TW, RegionGroupName.US >>),
       serviceGroup(<< "O", "p", "e", "n", "A", "I" >>,
                    << Proxies, RegionGroupName.HK, RegionGroupName.JP, RegionGroupName.SG, RegionGroupName.TW, RegionGroupName.US >>),
       serviceGroup(<< "P", "a", "y", "P", "a", "l" >>,
                    << Proxies, DIRECT, RegionGroupName.HK, RegionGroupName.JP, RegionGroupName.SG, RegionGroupName.TW, RegionGroupName.US >>),
       serviceGroup(<< "A", "p", "p", "l", "e" >>,
                    << Proxies, DIRECT, RegionGroupName.HK, RegionGroupName.JP, RegionGroupName.SG, RegionGroupName.TW, RegionGroupName.US >>) >>

\* part_004 lines 252-417
buildProxyGroups(proxyNames, regionGroups) ==
    << selectGroup(Proxies, umbrellaMembers(proxyNames)),
       urlTestGroup(AutoSelect, proxyNames) >>
    \o [k \in 1..Len(regionConfigs) |->
           regionGroup(regionConfigs[k], regionGroups[regionConfigs[k]])]
    \o serviceGroups
    \o << selectGroup(Final, << Proxies, DIRECT >>) >>

\* part_004 lines 419-421
buildRules == << >>

\* BuildConfigMap lines 23-43 and 84-86: the groups and rules of the
\* generated document
ProxyGroupsAndRules(proxies) ==
    [groups |-> buildProxyGroups(proxyNamesOf(proxies),
                                 regionGroupsOf(proxyNamesOf(proxies))),
     rules |-> buildRules]

(***************************************************************************)
(* The earlier generator (part_005): the umbrella selector is zh-node        *)
(* zh-select, the services are zh-stream zh-media and AI zh-service, the     *)
(* fallback group is zh-leftover, and the rules are a fixed table.  A rule   *)
(* is held by its comma-separated fields.                                    *)
(***************************************************************************)
NodeSelect == << "zh-node", "zh-select" >>
Streaming == << "zh-stream", "zh-media" >>
AIService == << "A", "I", " ", "zh-service" >>
Leftover == << "zh-leftover" >>

\* Hong\s*Kong, United\s*States: two words with any white space between
spacedWords(lower, first, second) ==
    \E i \in 1..Len(lower), j \in 1..Len(lower) :
        /\ i + Len(first) - 1 <= Len(lower)
        /\ j + Len(second) - 1 <= Len(lower)
        /\ j >= i + Len(first)
        /\ SubSeq(lower, i, i + Len(first) - 1) = first
        /\ SubSeq(lower, j, j + Len(second) - 1) = second
        /\ \A k \in (i + Len(first))..(j - 1) : lower[k] \in WhiteSpace

\* part_005 lines 85-101: the patterns match anywhere in the name, without
\* regard to case
classifyProxyName_part005(name) ==
    LET lower == ToLower(name)
        has(sub) == Contains(lower, sub)
    IN  [HK |-> \/ has(<< "flag-HK" >>) \/ has(<< "zh-HK" >>)
                \/ has(<< "h", "k" >>)
                \/ spacedWords(lower, << "h", "o", "n", "g" >>,
                                      << "k", "o", "n", "g" >>),
         TW |-> \/ has(<< "flag-TW" >>) \/ has(<< "zh-TW" >>)
                \/ has(<< "t", "w" >>)
                \/ has(<< "t", "a", "i", "w", "a", "n" >>),
         JP |-> \/ has(<< "flag-JP" >>) \/ has(<< "zh-JP" >>)
                \/ has(<< "j", "p" >>)
                \/ has(<< "j", "a", "p", "a", "n" >>),
         SG |-> \/ has(<< "flag-SG" >>) \/ has(<< "zh-SG" >>)
                \/ has(<< "s", "g" >>)
                \/ has(<< "s", "i", "n", "g", "a", "p", "o", "r", "e" >>),
         US |-> \/ has(<< "flag-US" >>) \/ has(<< "zh-US" >>)
                \/ has(<< "u", "s" >>)
                \/ spacedWords(lower, << "u", "n", "i", "t", "e", "d" >>,
                                      << "s", "t", "a", "t", "e", "s" >>)
                \/ has(<< "a", "m", "e", "r", "i", "c", "a" >>),
         KR |-> \/ has(<< "flag-KR" >>) \/ has(<< "zh-KR" >>)
                \/ has(<< "k", "r" >>)
                \/ has(<< "k", "o", "r", "e", "a" >>)]

\* part_005 lines 19-32
regionGroupsOf_part005(proxyNames) ==
    [r \in Regions |->
        SelectSeq(proxyNames,
                  LAMBDA name : classifyProxyName_part005(name)[r])]

\* part_005 lines 139-156: the group of one region
regionGroup_part005(rc, members, proxyNames) ==
    IF Len(members) > 0
    THEN urlTestGroup(RegionGroupName[rc], members)
    ELSE selectGroup(RegionGroupName[rc],
                     IF Len(proxyNames) = 0 THEN << DIRECT >>
                     ELSE proxyNames)

\* part_005 lines 103-191
buildProxyGroups_part005(proxyNames, regionGroups) ==
    << selectGroup(NodeSelect, umbrellaMembers(proxyNames)),
       urlTestGroup(AutoSelect, proxyNames) >>
    \o [k \in 1..Len(regionConfigs) |->
           regionGroup_part005(regionConfigs[k],
                               regionGroups[regionConfigs[k]], proxyNames)]
    \o << selectGroup(Streaming,
                      << NodeSelect >>
                      \o [k \in 1..Len(regionConfigs) |->
                             RegionGroupName[regionConfigs[k]]]
                      \o << DIRECT >>),
          selectGroup(AIService,
                      << RegionGroupName.US, RegionGroupName.JP,
                         RegionGroupName.SG, NodeSelect, DIRECT >>),
          selectGroup(Leftover, << NodeSelect, DIRECT >>) >>

\* part_005 lines 193-316
buildRules_part005 ==
    << << "DOMAIN-SUFFIX", "ads.mopub.com", REJECT >>,
       << "DOMAIN-SUFFIX", "analytics.google.com", REJECT >>,
       << "DOMAIN-SUFFIX", "openai.com", AIService >>,
       << "DOMAIN-SUFFIX", "anthropic.com", AIService >>,
       << "DOMAIN-SUFFIX", "claude.ai", AIService >>,
       << "DOMAIN-SUFFIX", "bard.google.com", AIService >>,
       << "DOMAIN-SUFFIX", "gemini.google.com", AIService >>,
       << "DOMAIN-SUFFIX", "chat.openai.com", AIService >>,
       << "DOMAIN-SUFFIX", "sora.com", AIService >>,
       << "DOMAIN-SUFFIX", "chatgpt.com", AIService >>,
       << "DOMAIN-KEYWORD", "openai", AIService >>,
       << "DOMAIN-SUFFIX", "netflix.com", Streaming >>,
       << "DOMAIN-SUFFIX", "netflix.net", Streaming >>,
       << "DOMAIN-SUFFIX", "nflxvideo.net", Streaming >>,
       << "DOMAIN-SUFFIX", "nflximg.net", Streaming >>,
       << "DOMAIN-SUFFIX", "nflxext.com", Streaming >>,
       << "DOMAIN-SUFFIX", "disneyplus.com", Streaming >>,
       << "DOMAIN-SUFFIX", "disney-plus.net", Streaming >>,
       << "DOMAIN-SUFFIX", "hulu.com", Streaming >>,
       << "DOMAIN-SUFFIX", "hbo.com", Streaming >>,
       << "DOMAIN-SUFFIX", "hbomax.com", Streaming >>,
       << "DOMAIN-SUFFIX", "youtube.com", Streaming >>,
       << "DOMAIN-SUFFIX", "googlevideo.com", Streaming >>,
       << "DOMAIN-SUFFIX", "ytimg.com", Streaming >>,
       << "DOMAIN-SUFFIX", "spotify.com", Streaming >>,
       << "DOMAIN-SUFFIX", "twitch.tv", Streaming >>,
       << "DOMAIN-SUFFIX", "google.com", NodeSelect >>,
       << "DOMAIN-SUFFIX", "google.com.hk", NodeSelect >>,
       << "DOMAIN-SUFFIX", "googleapis.com", NodeSelect >>,
       << "DOMAIN-SUFFIX", "googlesource.com", NodeSelect >>,
       << "DOMAIN-SUFFIX", "gstatic.com", NodeSelect >>,
       << "DOMAIN-SUFFIX", "gmail.com", NodeSelect >>,
       << "DOMAIN-SUFFIX", "github.com", NodeSelect >>,
       << "DOMAIN-SUFFIX", "githubusercontent.com", NodeSelect >>,
       << "DOMAIN-SUFFIX", "github.io", NodeSelect >>,
       << "DOMAIN-SUFFIX", "githubassets.com", NodeSelect >>,
       << "DOMAIN-SUFFIX", "twitter.com", NodeSelect >>,
       << "DOMAIN-SUFFIX", "x.com", NodeSelect >>,
       << "DOMAIN-SUFFIX", "twimg.com", NodeSelect >>,
       << "DOMAIN-SUFFIX", "t.co", NodeSelect >>,
       << "DOMAIN-SUFFIX", "facebook.com", NodeSelect >>,
       << "DOMAIN-SUFFIX", "instagram.com", NodeSelect >>,
       << "DOMAIN-SUFFIX", "whatsapp.com", NodeSelect >>,
       << "DOMAIN-SUFFIX", "telegram.org", NodeSelect >>,
       << "DOMAIN-SUFFIX", "t.me", NodeSelect >>,
       << "DOMAIN-SUFFIX", "telegra.ph", NodeSelect >>,
       << "DOMAIN-SUFFIX", "wikipedia.org", NodeSelect >>,
       << "DOMAIN-SUFFIX", "wikimedia.org", NodeSelect >>,
       << "DOMAIN-SUFFIX", "reddit.com", NodeSelect >>,
       << "DOMAIN-SUFFIX", "redd.it", NodeSelect >>,
       << "DOMAIN-SUFFIX", "redditstatic.com", NodeSelect >>,
       << "DOMAIN-SUFFIX", "medium.com", NodeSelect >>,
       << "DOMAIN-SUFFIX", "notion.so", NodeSelect >>,
       << "DOMAIN-SUFFIX", "notion.site", NodeSelect >>,
       << "DOMAIN-SUFFIX", "discord.com", NodeSelect >>,
       << "DOMAIN-SUFFIX", "discordapp.com", NodeSelect >>,
       << "DOMAIN-SUFFIX", "slack.com", NodeSelect >>,
       << "DOMAIN-SUFFIX", "amazonaws.com", NodeSelect >>,
       << "DOMAIN-SUFFIX", "cloudflare.com", NodeSelect >>,
       << "DOMAIN-SUFFIX", "apple.com", DIRECT >>,
       << "DOMAIN-SUFFIX", "icloud.com", DIRECT >>,
       << "DOMAIN-SUFFIX", "microsoft.com", NodeSelect >>,
       << "DOMAIN-SUFFIX", "live.com", NodeSelect >>,
       << "DOMAIN-SUFFIX", "docker.com", NodeSelect >>,
       << "DOMAIN-SUFFIX", "docker.io", NodeSelect >>,
       << "DOMAIN-SUFFIX", "v2ex.com", NodeSelect >>,
       << "DOMAIN-SUFFIX", "stackoverflow.com", NodeSelect >>,
       << "DOMAIN-SUFFIX", "stackexchange.com", NodeSelect >>,
       << "DOMAIN-SUFFIX", "grammarly.com", NodeSelect >>,
       << "DOMAIN-SUFFIX", "cn", DIRECT >>,
       << "DOMAIN-SUFFIX", "baidu.com", DIRECT >>,
       << "DOMAIN-SUFFIX", "bdstatic.com", DIRECT >>,
       << "DOMAIN-SUFFIX", "bilibili.com", DIRECT >>,
       << "DOMAIN-SUFFIX", "bilivideo.com", DIRECT >>,
       << "DOMAIN-SUFFIX", "hdslb.com", DIRECT >>,
       << "DOMAIN-SUFFIX", "zhihu.com", DIRECT >>,
       << "DOMAIN-SUFFIX", "douyin.com", DIRECT >>,
       << "DOMAIN-SUFFIX", "tiktokv.com", DIRECT >>,
       << "DOMAIN-SUFFIX", "taobao.com", DIRECT >>,
       << "DOMAIN-SUFFIX", "tmall.com", DIRECT >>,
       << "DOMAIN-SUFFIX", "alipay.com", DIRECT >>,
       << "DOMAIN-SUFFIX", "jd.com", DIRECT >>,
       << "DOMAIN-SUFFIX", "qq.com", DIRECT >>,
       << "DOMAIN-SUFFIX", "wechat.com", DIRECT >>,
       << "DOMAIN-SUFFIX", "weixin.qq.com", DIRECT >>,
       << "DOMAIN-SUFFIX", "163.com", DIRECT >>,
       << "DOMAIN-SUFFIX", "126.com", DIRECT >>,
       << "DOMAIN-SUFFIX", "csdn.net", DIRECT >>,
       << "DOMAIN-SUFFIX", "jianshu.com", DIRECT >>,
       << "DOMAIN-SUFFIX", "aliyun.com", DIRECT >>,
       << "DOMAIN-SUFFIX", "aliyuncs.com", DIRECT >>,
       << "DOMAIN-SUFFIX", "tencentcloud.com", DIRECT >>,
       << "DOMAIN-SUFFIX", "myqcloud.com", DIRECT >>,
       << "DOMAIN-SUFFIX", "feishu.cn", DIRECT >>,
       << "DOMAIN-SUFFIX", "feishu.net", DIRECT >>,
       << "DOMAIN-SUFFIX", "dingtalk.com", DIRECT >>,
       << "DOMAIN-SUFFIX", "meituan.com", DIRECT >>,
       << "DOMAIN-SUFFIX", "dianping.com", DIRECT >>,
       << "DOMAIN-SUFFIX", "xiaomi.com", DIRECT >>,
       << "DOMAIN-SUFFIX", "huawei.com", DIRECT >>,
       << "DOMAIN-SUFFIX", "weibo.com", DIRECT >>,
       << "DOMAIN-SUFFIX", "sinaimg.cn", DIRECT >>,
       << "DOMAIN-SUFFIX", "douban.com", DIRECT >>,
       << "DOMAIN-SUFFIX", "ctrip.com", DIRECT >>,
       << "DOMAIN-SUFFIX", "local", DIRECT >>,
       << "IP-CIDR", "10.0.0.0/8", DIRECT, "no-resolve" >>,
       << "IP-CIDR", "172.16.0.0/12", DIRECT, "no-resolve" >>,
       << "IP-CIDR", "192.168.0.0/16", DIRECT, "no-resolve" >>,
       << "IP-CIDR", "127.0.0.0/8", DIRECT, "no-resolve" >>,
       << "IP-CIDR", "100.64.0.0/10", DIRECT, "no-resolve" >>,
       << "GEOIP", "CN", DIRECT >>,
       << "MATCH", Leftover >> >>

\* part_005 lines 11-83: the groups and rules of the generated document
ProxyGroupsAndRules_part005(proxies) ==
    [groups |-> buildProxyGroups_part005(
                    proxyNamesOf(proxies),
                    regionGroupsOf_part005(proxyNamesOf(proxies))),
     rules |-> buildRules_part005]

\* the nodes of the lists the generator is called with: one of Hong Kong,
\* one of two regions, one of no region, one named by a Chinese word, and one
\* without a name
NamelessNode == [port |-> << "int", 443 >>]

GroupNodes ==
    { Node(<< "H", "K" >>),
      Node(<< "U", "S", "-", "h", "k" >>),
      Node(<< "x", "j", "p" >>),
      Node(<< "zh-JP", "1" >>),
      NamelessNode }

NodeLists == ListsOf(GroupNodes, MaxLen)

(***************************************************************************)
(* encoding/base64, StdEncoding.DecodeString: line feeds are skipped, the   *)
(* length must be a multiple of 4, and padding may only end the text.       *)
(***************************************************************************)
\* the value of a character of the alphabet
base64Index ==
    [c \in Alnum |->
        IF c \in Range(UpperCase)
        THEN (CHOOSE i \in DOMAIN UpperCase : UpperCase[i] = c) - 1
        ELSE IF c \in Range(LowerCase)
        THEN (CHOOSE i \in DOMAIN LowerCase : LowerCase[i] = c) + 25
        ELSE Digit[c] + 52]

\* the character of a byte
CharOf(b) ==
    CASE b \in 65..90 -> UpperCase[b - 64]
      [] b \in 97..122 -> LowerCase[b - 96]
      [] b \in 48..57 -> CHOOSE c \in Digits : Digit[c] = b - 48
      [] b = 10 -> "LF"
      [] b = 32 -> " "
      [] b = 58 -> ":"
      [] b = 61 -> "="
      [] b = 64 -> "@"
      [] OTHER -> ToString(b)

\* the bytes of a group of four characters, the last ones possibly padding
decodeQuantum(q) ==
    LET v == [i \in 1..4 |-> IF q[i] \in Alnum THEN base64Index[q[i]] ELSE 0]
        b1 == v[1] * 4 + (v[2] \div 16)
        b2 == (v[2] % 16) * 16 + (v[3] \div 4)
        b3 == (v[3] % 4) * 64 + v[4]
    IN IF q[3] = "=" THEN << CharOf(b1) >>
       ELSE IF q[4] = "=" THEN << CharOf(b1), CharOf(b2) >>
       ELSE << CharOf(b1), CharOf(b2), CharOf(b3) >>

RECURSIVE decodeQuanta(_)
decodeQuanta(t) ==
    IF t = << >> THEN << >>
    ELSE decodeQuantum(SubSeq(t, 1, 4)) \o decodeQuanta(SubSeq(t, 5, Len(t)))

wellPadded(t) ==
    /\ Len(t) % 4 = 0
    /\ \A i \in 1..(Len(t) - 2) : t[i] \in Alnum
    /\ Len(t) > 0 =>
          \/ t[Len(t) - 1] \in Alnum /\ t[Len(t)] \in Alnum
          \/ t[Len(t) - 1] \in Alnum /\ t[Len(t)] = "="
          \/ t[Len(t) - 1] = "=" /\ t[Len(t)] = "="

DecodeString(str) ==
    LET t == SelectSeq(str, LAMBDA c : c # "LF") IN
    IF wellPadded(t) THEN [err |-> FALSE, decoded |-> decodeQuanta(t)]
    ELSE [err |-> TRUE, decoded |-> << >>]

\* a padding step that adds nothing
padNothing(str) == str

\* the padding of subscriber.go: "=" up to a multiple of 4
padTo4(str) ==
    IF Len(str) % 4 # 0
    THEN str \o [i \in 1..(4 - (Len(str) % 4)) |-> "="]
    ELSE str

\* parseVMess lines 145-149, parseSS lines 278-281 and 297-300, parseSSR
\* lines 334-338 and 358-364: pad, then decode
decodePadded(raw) == DecodeString(padTo4(raw))

PadChars == { "Y", "Q", "W", "I", "=", "LF" }

\* texts given to a decoder step: nothing or one full group of four
\* characters, then up to MaxLen characters
PadTexts ==
    { q \o t : q \in { << >>, << "Y", "W", "J", "j" >> },
               t \in ListsOf(PadChars, MaxLen) }

\* strings.Split(str, "\n")
RECURSIVE SplitLines(_)
SplitLines(str) ==
    IF \A i \in DOMAIN str : str[i] # "LF" THEN << str >>
    ELSE LET n == CHOOSE i \in DOMAIN str :
                     str[i] = "LF" /\ \A j \in 1..(i - 1) : str[j] # "LF"
         IN << SubSeq(str, 1, n - 1) >>
               \o SplitLines(SubSeq(str, n + 1, Len(str)))

\* lines 100-113 of parseSubscription for a body that is no YAML document
\* with proxies: the text that is split into lines
listText(body) ==
    LET content == TrimSpace(body)
        first == DecodeString(content)
        padded == IF first.err THEN padTo4(content) ELSE content
        second == IF first.err THEN DecodeString(padded) ELSE first
    IN IF second.err THEN padded ELSE second.decoded

\* lines 114-123: the lines given to parseURI
uriLines(body) ==
    SelectSeq([i \in DOMAIN SplitLines(listText(body)) |->
                  TrimSpace(SplitLines(listText(body))[i])],
              LAMBDA line : line # << >>)

BodyChars == { "Y", "Q", "o", "=", ":", "LF", " " }

Bodies == ListsOf(BodyChars, MaxLen)

(***************************************************************************)
(* encoding/json on []ProxyNode (a slice of map[string]interface{}): a nil  *)
(* slice is written as null, an int becomes a JSON number and is read back  *)
(* as a float64.                                                            *)
(***************************************************************************)
jsonValue(v) == IF v[1] = "int" \/ v[1] = "float64" THEN <<"number", v[2]>> ELSE v

jsonMarshal(proxies) ==
    IF proxies = <<>>
    THEN [kind |-> "null", elems |-> <<>>]
    ELSE [kind |-> "array",
          elems |-> [i \in 1..Len(proxies) |->
                       [name |-> proxies[i].name,
                        port |-> jsonValue(proxies[i].port)]]]

goValue(v) == IF v[1] = "number" THEN <<"float64", v[2]>> ELSE v

jsonUnmarshal(raw) ==
    [i \in 1..Len(raw.elems) |->
        [name |-> raw.elems[i].name, port |-> goValue(raw.elems[i].port)]]

(***************************************************************************)
(* The zero values of the goroutine-local state.                            *)
(***************************************************************************)
\* what a call returns: the ProxyCacheRefreshResult of a refresh, the
\* LastRunAt of a status request, and the error
NoResult ==
    [Total |-> 0, Success |-> 0, Failed |-> 0, RefreshedAt |-> 0,
     Items |-> <<>>, LastRunAt |-> 0, err |-> ""]

EmptyHash == [u \in {} |-> 0]

NoGot == [url |-> <<>>, raw |-> jsonMarshal(<<>>), updatedAt |-> 0,
          found |-> FALSE]

NoSched ==
    [now |-> 0, tickerNext |-> 0, source |-> "startup", urls |-> <<>>,
     lastRunAt |-> 0, ok |-> FALSE, decided |-> FALSE]

(***************************************************************************)
(* Subscribers, sessions, the admin account and the stash profiles.         *)
(***************************************************************************)
\* InitDefaultAdmin: the account created when the store has none
DefaultAdmin == "admin"

\* the names an administrator may take, the subscribers, the tokens
\* generateRandomToken may return, and the session tokens of CreateSession
AdminNames == { "admin", "root" }
Subscribers == { "alice" }
APITokens == { "t1" }
SessionTokens == { "s1" }

DefaultStashProfileName == "default"
defaultStashProfileYAML == << "{}", "LF" >>

\* A profile document is a sequence of symbols: a blank, a line feed, or the
\* text of one line.  Two lines are entries of a mapping, one is an item of
\* a sequence and one has a flow sequence that is not closed.
YAMLEntries ==
    [ mode_global |-> [key |-> "mode", value |-> Scalar(2)],
      mode_direct |-> [key |-> "mode", value |-> Scalar(3)],
      dns_ipv6 |-> [key |-> "dns", value |-> Map([ipv6 |-> Scalar(1)])],
      proxies_x |-> [key |-> "proxies",
                     value |-> Slice(<< Map([name |-> Scalar(8)]) >>)],
      proxies_y |-> [key |-> "proxies",
                     value |-> Slice(<< Map([name |-> Scalar(9)]) >>)] ]

ProfileNames == { "", "p1", "p2" }

\* the request that HandleGetConfig serves: none
NoRequest ==
    [stage |-> "none", method |-> "", token |-> "", cookie |-> "",
     username |-> "", isAdmin |-> FALSE, status |-> 0, selected |-> "",
     overlays |-> << >>, body |-> << >>]

\* The goroutines that run in one run of the process, with the url list
\* stored when the process starts.
Scenarios ==
    { << {"manual", "cfg1"}, TwoSources >>,
      << {"manual", "status"}, TwoSources >>,
      << {"manual"}, ThreeSources >>,
      << {"sched"}, OneSource >>,
      << {"sched"}, <<>> >> }

\* the state of the process and of the store after construction, for the
\* goroutines of `active'
Constructed ==
    /\ cacheData = EmptyHash
    /\ cacheUpdated = EmptyHash
    /\ lastRunKey = 0
    /\ clock = 1
    /\ proxyCacheRefreshMu = NoProc
    /\ pc = [p \in Procs |-> IF p \in SchedProcs /\ p \in active
                             THEN "start" ELSE "idle"]
    /\ urls = [p \in Procs |-> <<>>]
    /\ normalizedURLs = [p \in Procs |-> <<>>]
    /\ refreshedAt = [p \in Procs |-> 0]
    /\ workers = [p \in Procs |-> <<>>]
    /\ ch = [p \in Procs |-> <<>>]
    /\ result = [p \in Procs |-> NoResult]
    /\ idx = [p \in Procs |-> 0]
    /\ missing = [p \in Procs |-> <<>>]
    /\ all = [p \in Procs |-> <<>>]
    /\ statuses = [p \in Procs |-> <<>>]
    /\ got = [p \in Procs |-> NoGot]
    /\ sched = NoSched
    /\ events = 0
    /\ batchSeq = 0
    /\ batchNo = [p \in Procs |-> 0]
    /\ lastRunBatch = 0
    /\ snapData = [p \in Procs |-> EmptyHash]
    /\ snapUpdated = [p \in Procs |-> EmptyHash]
    /\ saved = {}

\* the rest of the store after InitRedis, which creates the admin account,
\* and no request being served
Installed ==
    /\ tokenHash = EmptyHash
    /\ userTokenHash = EmptyHash
    /\ userProfileHash = EmptyHash
    /\ sessionKeys = EmptyHash
    /\ adminUsername = DefaultAdmin
    /\ profileHash = EmptyHash
    /\ req = NoRequest

Init ==
    /\ \E sc \in Scenarios : active = sc[1] /\ sources = sc[2]
    /\ Constructed
    /\ Installed
    /\ arg = << >>
    /\ ret = NotCalled

\* no goroutine runs: a function is called on its own
NoGoroutines ==
    active = {} /\ sources = << >> /\ Constructed /\ Installed

(***************************************************************************)
(* sync.Mutex                                                               *)
(***************************************************************************)
\* a Lock that returns at once, whoever holds the mutex
MuLockNoWait(p) == TRUE

\* a Lock that lets a second caller in while the mutex is held
MuLockBarging(p) == proxyCacheRefreshMu # p

\* Lock returns only once the mutex is free; the caller then owns it.
MuLock(p) == proxyCacheRefreshMu = NoProc

(***************************************************************************)
(* Redis hashes: HSET on a hash held as a function over its fields.         *)
(***************************************************************************)
HSet(h, field, value) ==
    [f \in (DOMAIN h) \cup {field} |-> IF f = field THEN value ELSE h[f]]

(***************************************************************************)
(* RefreshProxyCache                                                        *)
(***************************************************************************)
\* the argument of the goroutine's RefreshProxyCache call: the missing urls
\* for BuildProxiesFromCache, the stored urls for RefreshProxyCacheFromStore
RefreshArg(p) == IF p \in CfgProcs THEN missing[p] ELSE urls[p]

\* where the caller continues when RefreshProxyCache returns
AfterRefresh(p) ==
    IF p \in CfgProcs THEN "collect1"
    ELSE IF p \in SchedProcs THEN "log"
         ELSE "done"

\* a worker goroutine: its position, whether fetchSingleURL returned nodes,
\* and the nodes
NewWorker == [pc |-> "fetch", fetched |-> FALSE, proxies |-> <<>>]

NewItem(p, i) ==
    [URL |-> normalizedURLs[p][i], Count |-> 0,
     UpdatedAt |-> refreshedAt[p], Error |-> ""]

ZeroItem == [URL |-> <<>>, Count |-> 0, UpdatedAt |-> 0, Error |-> ""]

\* a refresh that records its time as the last run also for an empty batch
RefreshLockEmptySetsLastRun(p) ==
    /\ UNCHANGED << fnVars, webVars >>
    /\ pc[p] = "lock"
    /\ MuLock(p)
    /\ LET n == normalizeSubscribeURLs(RefreshArg(p)) IN
       /\ normalizedURLs' = [normalizedURLs EXCEPT ![p] = n]
       /\ refreshedAt' = [refreshedAt EXCEPT ![p] = clock]
       /\ batchSeq' = batchSeq + 1
       /\ batchNo' = [batchNo EXCEPT ![p] = batchSeq + 1]
       /\ ch' = [ch EXCEPT ![p] = <<>>]
       /\ IF n = <<>>
          THEN /\ result' = [result EXCEPT ![p] =
                                [NoResult EXCEPT !.RefreshedAt = clock]]
               /\ workers' = [workers EXCEPT ![p] = <<>>]
               /\ pc' = [pc EXCEPT ![p] = AfterRefresh(p)]
               /\ proxyCacheRefreshMu' = NoProc
               /\ lastRunKey' = clock
               /\ UNCHANGED << snapData, snapUpdated >>
          ELSE /\ workers' = [workers EXCEPT ![p] =
                                 [i \in 1..Len(n) |-> NewWorker]]
               /\ pc' = [pc EXCEPT ![p] = "workers"]
               /\ proxyCacheRefreshMu' = p
               /\ snapData' = [snapData EXCEPT ![p] = cacheData]
               /\ snapUpdated' = [snapUpdated EXCEPT ![p] = cacheUpdated]
               /\ UNCHANGED << result, lastRunKey >>
    /\ UNCHANGED << sources, cacheData, cacheUpdated, clock, urls, readVars,
                    sched, active, events, lastRunBatch, saved >>

\* lines 97-117: lock, normalize, take the batch time, start the workers;
\* an empty batch returns at once (and the deferred Unlock runs).
RefreshLock(p) ==
    /\ UNCHANGED << fnVars, webVars >>
    /\ pc[p] = "lock"
    /\ MuLock(p)
    /\ LET n == normalizeSubscribeURLs(RefreshArg(p)) IN
       /\ normalizedURLs' = [normalizedURLs EXCEPT ![p] = n]
       /\ refreshedAt' = [refreshedAt EXCEPT ![p] = clock]
       /\ batchSeq' = batchSeq + 1
       /\ batchNo' = [batchNo EXCEPT ![p] = batchSeq + 1]
       /\ ch' = [ch EXCEPT ![p] = <<>>]
       /\ IF n = <<>>
          THEN /\ result' = [result EXCEPT ![p] =
                                [NoResult EXCEPT !.RefreshedAt = clock]]
               /\ workers' = [workers EXCEPT ![p] = <<>>]
               /\ pc' = [pc EXCEPT ![p] = AfterRefresh(p)]
               /\ proxyCacheRefreshMu' = NoProc
               /\ UNCHANGED << snapData, snapUpdated >>
          ELSE /\ workers' = [workers EXCEPT ![p] =
                                 [i \in 1..Len(n) |-> NewWorker]]
               /\ pc' = [pc EXCEPT ![p] = "workers"]
               /\ proxyCacheRefreshMu' = p
               /\ snapData' = [snapData EXCEPT ![p] = cacheData]
               /\ snapUpdated' = [snapUpdated EXCEPT ![p] = cacheUpdated]
               /\ UNCHANGED result
    /\ UNCHANGED << storeVars, clock, urls, readVars, sched, active,
                    events, lastRunBatch, saved >>

\* a failed fetch after which the worker goes on to SaveProxyCache
FetchFailedThenSave(p, i, e) ==
    /\ workers' = [workers EXCEPT ![p][i].pc = "hset_data"]
    /\ UNCHANGED ch

\* a failed fetch whose error is not recorded on the item
FetchFailedSilent(p, i, e) ==
    /\ workers' = [workers EXCEPT ![p][i].pc = "done"]
    /\ ch' = [ch EXCEPT ![p] = Append(@, NewItem(p, i))]

\* a failed fetch whose worker stays blocked in the send of its item, as on
\* a channel without buffer that nobody receives from before wg.Wait returns
FetchFailedBlocksOnSend(p, i, e) ==
    /\ workers' = [workers EXCEPT ![p][i].pc = "send"]
    /\ UNCHANGED ch

\* a failed fetch that reports the error and then fetches the url again
FetchFailedRetries(p, i, e) ==
    /\ workers' = [workers EXCEPT ![p][i].pc = "fetch"]
    /\ ch' = [ch EXCEPT ![p] = Append(@, [NewItem(p, i) EXCEPT !.Error = e])]

\* lines 130-135: fetchSingleURL failed; the error goes to the channel
FetchFailed(p, i, e) ==
    /\ workers' = [workers EXCEPT ![p][i].pc = "done"]
    /\ ch' = [ch EXCEPT ![p] = Append(@, [NewItem(p, i) EXCEPT !.Error = e])]

\* line 130: the remote fetch of one url, by the batch's worker for it
WorkerFetch(p, i) ==
    /\ UNCHANGED << fnVars, webVars >>
    /\ i \in DOMAIN workers[p]
    /\ workers[p][i].pc = "fetch"
    /\ \/ \E e \in FetchErrors : FetchFailed(p, i, e)
       \/ \E f \in Feeds(normalizedURLs[p][i]) :
            /\ workers' = [workers EXCEPT ![p][i] =
                  [pc |-> "hset_data", fetched |-> TRUE, proxies |-> f]]
            /\ UNCHANGED ch
    /\ UNCHANGED << storeVars, clock, proxyCacheRefreshMu, pc, urls,
                    normalizedURLs, refreshedAt, result, readVars, sched,
                    active, events, ghostBatchVars >>

\* a SaveProxyCache that encodes no nodes
SavedNothing(p, i) == jsonMarshal(<<>>)

\* what SaveProxyCache writes under the data hash
SavedData(p, i) == jsonMarshal(workers[p][i].proxies)

\* SaveProxyCache, first command of the pipeline; when the store is down
\* nothing is written and lines 137-141 report the error
WorkerHSetData(p, i) ==
    /\ UNCHANGED << fnVars, webVars >>
    /\ i \in DOMAIN workers[p]
    /\ workers[p][i].pc = "hset_data"
    /\ LET url == normalizeCacheURL(normalizedURLs[p][i]) IN
       \/ /\ StoreOk
          /\ cacheData' = HSet(cacheData, url, SavedData(p, i))
          /\ saved' = saved \cup { << url, SavedData(p, i), refreshedAt[p] >> }
          /\ workers' = [workers EXCEPT ![p][i].pc = "hset_updated"]
          /\ UNCHANGED ch
       \/ /\ StoreFault
          /\ workers' = [workers EXCEPT ![p][i].pc = "done"]
          /\ ch' = [ch EXCEPT ![p] =
                       Append(@, [NewItem(p, i) EXCEPT !.Error = RedisError])]
          /\ UNCHANGED << cacheData, saved >>
    /\ UNCHANGED << sources, cacheUpdated, lastRunKey, clock,
                    proxyCacheRefreshMu, pc, urls, normalizedURLs,
                    refreshedAt, result, readVars, sched, active, batchSeq,
                    batchNo, lastRunBatch, snapData, snapUpdated >>

\* an item that reports a fetch without nodes as an error
savedItemNeedsNodes(p, i) ==
    IF Len(workers[p][i].proxies) = 0
    THEN [NewItem(p, i) EXCEPT !.Error = "no nodes"]
    ELSE [NewItem(p, i) EXCEPT !.Count = Len(workers[p][i].proxies)]

\* lines 143-144: the item of a url that was fetched and saved
savedItem(p, i) ==
    [NewItem(p, i) EXCEPT !.Count = Len(workers[p][i].proxies)]

\* SaveProxyCache, second command of the pipeline; lines 143-144
WorkerHSetUpdated(p, i) ==
    /\ UNCHANGED << fnVars, webVars >>
    /\ i \in DOMAIN workers[p]
    /\ workers[p][i].pc = "hset_updated"
    /\ cacheUpdated' = HSet(cacheUpdated,
                            normalizeCacheURL(normalizedURLs[p][i]),
                            refreshedAt[p])
    /\ workers' = [workers EXCEPT ![p][i].pc = "done"]
    /\ ch' = [ch EXCEPT ![p] = Append(@, savedItem(p, i))]
    /\ UNCHANGED << sources, cacheData, lastRunKey, clock,
                    proxyCacheRefreshMu, pc, urls, normalizedURLs,
                    refreshedAt, result, readVars, sched, active, events,
                    ghostBatchVars >>

\* every worker of the batch has sent its item and called wg.Done
AllDone(p) == \A i \in DOMAIN workers[p] : workers[p][i].pc = "done"

\* a wg.Wait that returns while workers still run
wgNoWait(p) == TRUE

\* line 148: wg.Wait returns when every worker has called wg.Done
wgWait(p) == AllDone(p)

\* lines 151-154: the map filled from the channel, read with the zero value
\* for a url that sent nothing
RECURSIVE itemsByURL(_, _)
itemsByURL(chan, url) ==
    IF chan = <<>> THEN ZeroItem
    ELSE IF chan[Len(chan)].URL = url THEN chan[Len(chan)]
    ELSE itemsByURL(SubSeq(chan, 1, Len(chan) - 1), url)

\* every item counted as succeeded
countAsSuccess(res, item) == [res EXCEPT !.Success = @ + 1]

\* lines 159-163: one item counted as failed or as succeeded
countItem(res, item) ==
    IF item.Error # ""
    THEN [res EXCEPT !.Failed = @ + 1]
    ELSE [res EXCEPT !.Success = @ + 1]

\* the result with its items in the order the workers reported them
RECURSIVE aggregateInArrivalOrder(_, _, _)
aggregateInArrivalOrder(res, chan, rest) ==
    IF chan = <<>> THEN res
    ELSE aggregateInArrivalOrder(
             countItem([res EXCEPT !.Items = Append(@, Head(chan))],
                       Head(chan)),
             Tail(chan), rest)

\* lines 156-164: the result in url order with its counters
RECURSIVE aggregate(_, _, _)
aggregate(res, chan, rest) ==
    IF rest = <<>> THEN res
    ELSE LET item == itemsByURL(chan, Head(rest)) IN
         aggregate(countItem([res EXCEPT !.Items = Append(@, item)], item),
                   chan, Tail(rest))

\* lines 102-106: the result as initialised
newResult(p) ==
    [NoResult EXCEPT !.Total = Len(normalizedURLs[p]),
                     !.RefreshedAt = refreshedAt[p]]

\* lines 148-170: wait, aggregate, store the last-run time, unlock, return
RefreshFinish(p) ==
    /\ UNCHANGED << fnVars, webVars >>
    /\ pc[p] = "workers"
    /\ wgWait(p)
    /\ LET res == aggregate(newResult(p), ch[p], normalizedURLs[p]) IN
       \/ /\ StoreOk
          /\ lastRunKey' = refreshedAt[p]
          /\ lastRunBatch' = batchNo[p]
          /\ result' = [result EXCEPT ![p] = res]
       \/ /\ StoreFault
          /\ result' = [result EXCEPT ![p] = [res EXCEPT !.err = RedisError]]
          /\ UNCHANGED << lastRunKey, lastRunBatch >>
    /\ proxyCacheRefreshMu' = NoProc
    /\ pc' = [pc EXCEPT ![p] = AfterRefresh(p)]
    /\ workers' = [workers EXCEPT ![p] = IF AllDone(p) THEN <<>> ELSE @]
    /\ ch' = [ch EXCEPT ![p] = <<>>]
    /\ UNCHANGED << sources, cacheData, cacheUpdated, clock, urls,
                    normalizedURLs, refreshedAt, readVars, sched, active,
                    batchSeq, batchNo, snapData, snapUpdated, saved >>

(***************************************************************************)
(* POST /api/proxy/cache: HandleProxyCacheAPI -> RefreshProxyCacheFromStore *)
(***************************************************************************)
\* the call fails with a store error
Failed(p) ==
    /\ result' = [result EXCEPT ![p] = [NoResult EXCEPT !.err = RedisError]]
    /\ pc' = [pc EXCEPT ![p] = "done"]

ManualRefresh(p) ==
    /\ UNCHANGED << fnVars, webVars >>
    /\ p \in ManualProcs /\ p \in active
    /\ pc[p] = "idle"
    /\ \/ /\ Spend(1)
          /\ urls' = [urls EXCEPT ![p] = sources]
          /\ pc' = [pc EXCEPT ![p] = "lock"]
          /\ UNCHANGED result
       \/ /\ Spend(2)
          /\ Failed(p)
          /\ UNCHANGED urls
    /\ UNCHANGED << storeVars, clock, proxyCacheRefreshMu, batchVars,
                    readVars, sched, active, ghostBatchVars >>

(***************************************************************************)
(* GetProxyCache: HGET of the data hash, then HGET of the updated_at hash   *)
(***************************************************************************)
\* the urls the goroutine's loop runs over
LoopList(p) == normalizeSubscribeURLs(urls[p])

LoopURL(p) == normalizeCacheURL(LoopList(p)[idx[p]])

LastURL(p) == idx[p] = Len(LoopList(p))

\* a scan after which RefreshProxyCache is called whatever was found
ScanNextAlwaysRefreshes(p, g) ==
    LET m == IF g.found THEN missing[p] ELSE Append(missing[p], g.url) IN
    /\ missing' = [missing EXCEPT ![p] = m]
    /\ idx' = [idx EXCEPT ![p] = IF LastURL(p) THEN 1 ELSE @ + 1]
    /\ pc' = [pc EXCEPT ![p] = IF ~LastURL(p) THEN "scan1" ELSE "lock"]
    /\ UNCHANGED << all, statuses, result >>

\* GetProxyCachesByURLs lines 102-110, then BuildProxiesFromCache lines 74-78
ScanNext(p, g) ==
    LET m == IF g.found THEN missing[p] ELSE Append(missing[p], g.url) IN
    /\ missing' = [missing EXCEPT ![p] = m]
    /\ idx' = [idx EXCEPT ![p] = IF LastURL(p) THEN 1 ELSE @ + 1]
    /\ pc' = [pc EXCEPT ![p] =
                 IF ~LastURL(p) THEN "scan1"
                 ELSE IF Len(m) > 0 THEN "lock" ELSE "collect1"]
    /\ UNCHANGED << all, statuses, result >>

\* BuildProxiesFromCache lines 80-92 on a store that does not change: the
\* nodes of the urls that have an entry, in the order of the urls
RECURSIVE collectAll(_, _)
collectAll(data, list) ==
    IF list = <<>> THEN <<>>
    ELSE (IF normalizeCacheURL(Head(list)) \in DOMAIN data
          THEN jsonUnmarshal(data[normalizeCacheURL(Head(list))])
          ELSE <<>>) \o collectAll(data, Tail(list))

\* lines 81-92 with the nodes of a url put before those collected so far
CollectNextPrepends(p, g) ==
    /\ all' = [all EXCEPT ![p] =
                  IF g.found THEN jsonUnmarshal(g.raw) \o @ ELSE @]
    /\ idx' = [idx EXCEPT ![p] = IF LastURL(p) THEN @ ELSE @ + 1]
    /\ pc' = [pc EXCEPT ![p] = IF LastURL(p) THEN "done" ELSE "collect1"]
    /\ result' = [result EXCEPT ![p].err = IF LastURL(p) THEN "" ELSE @]
    /\ UNCHANGED << missing, statuses >>

\* BuildProxiesFromCache lines 81-92; after the last url it returns the
\* nodes and a nil error, whatever RefreshProxyCache had returned
CollectNext(p, g) ==
    /\ all' = [all EXCEPT ![p] =
                  IF g.found THEN @ \o jsonUnmarshal(g.raw) ELSE @]
    /\ idx' = [idx EXCEPT ![p] = IF LastURL(p) THEN @ ELSE @ + 1]
    /\ pc' = [pc EXCEPT ![p] = IF LastURL(p) THEN "done" ELSE "collect1"]
    /\ result' = [result EXCEPT ![p].err = IF LastURL(p) THEN "" ELSE @]
    /\ UNCHANGED << missing, statuses >>

\* ListProxyCacheStatus lines 124-140
StatusNext(p, g) ==
    /\ statuses' = [statuses EXCEPT ![p] =
          Append(@, [URL |-> g.url,
                     Count |-> IF g.found THEN Len(jsonUnmarshal(g.raw)) ELSE 0,
                     UpdatedAt |-> IF g.found THEN g.updatedAt ELSE 0])]
    /\ idx' = [idx EXCEPT ![p] = IF LastURL(p) THEN @ ELSE @ + 1]
    /\ pc' = [pc EXCEPT ![p] = IF LastURL(p) THEN "last_run" ELSE "status1"]
    /\ UNCHANGED << missing, all, result >>

\* the caller's use of what GetProxyCache returned
Returned(p, loop, g) ==
    /\ got' = [got EXCEPT ![p] = g]
    /\ CASE loop = "scan" -> ScanNext(p, g)
         [] loop = "collect" -> CollectNext(p, g)
         [] loop = "status" -> StatusNext(p, g)

LoopOf(pos) ==
    CASE pos = "scan1" -> "scan"
      [] pos = "collect1" -> "collect"
      [] pos \in {"status1", "status2"} -> "status"
      [] OTHER -> "none"

\* a failed read taken for a url without entry
ReadFailedAsMissing(p) ==
    /\ StoreFault
    /\ Returned(p, LoopOf(pc[p]), [NoGot EXCEPT !.url = LoopURL(p)])

\* GetProxyCache lines 70-72 and 80-82, and lines 103-105 and 125-127 of its
\* callers: the error is returned
ReadFailed(p) ==
    /\ StoreFault
    /\ Failed(p)
    /\ UNCHANGED << idx, missing, all, statuses, got >>

\* what the second HGET of GetProxyCache returns: a missing timestamp reads
\* as 0
ReadUpdated(p) ==
    [got[p] EXCEPT
        !.updatedAt = IF LoopURL(p) \in DOMAIN cacheUpdated
                      THEN cacheUpdated[LoopURL(p)] ELSE 0,
        !.found = TRUE]

\* GetProxyCache lines 66-77.  BuildProxiesFromCache and GetProxyCachesByURLs
\* drop the timestamp, so for them the second HGET, whose value nobody
\* reads, is part of this step.
HGetData(p) ==
    /\ UNCHANGED << fnVars, webVars >>
    /\ pc[p] \in {"scan1", "collect1", "status1"}
    /\ \/ ReadFailed(p)
       \/ /\ StoreOk
          /\ LET g == [NoGot EXCEPT !.url = LoopURL(p)] IN
             IF LoopURL(p) \notin DOMAIN cacheData
             THEN Returned(p, LoopOf(pc[p]), g)
             ELSE IF pc[p] = "status1"
             THEN /\ got' = [got EXCEPT ![p] =
                                [g EXCEPT !.raw = cacheData[LoopURL(p)]]]
                  /\ pc' = [pc EXCEPT ![p] = "status2"]
                  /\ UNCHANGED << idx, missing, all, statuses, result >>
             ELSE Returned(p, LoopOf(pc[p]),
                           [g EXCEPT !.raw = cacheData[LoopURL(p)],
                                     !.found = TRUE])
    /\ UNCHANGED << storeVars, clock, proxyCacheRefreshMu, urls, batchVars,
                    sched, active, ghostBatchVars >>

\* GetProxyCache lines 79-88
HGetUpdated(p) ==
    /\ UNCHANGED << fnVars, webVars >>
    /\ pc[p] = "status2"
    /\ \/ ReadFailed(p)
       \/ /\ StoreOk
          /\ Returned(p, LoopOf(pc[p]), ReadUpdated(p))
    /\ UNCHANGED << storeVars, clock, proxyCacheRefreshMu, urls, batchVars,
                    sched, active, ghostBatchVars >>

(***************************************************************************)
(* GET /: HandleGetConfig -> BuildProxiesFromCache                          *)
(***************************************************************************)
\* HandleGetConfig reads the stored urls (a warning is served when there are
\* none) and BuildProxiesFromCache lines 64-67 normalize them
CfgStart(p) ==
    /\ UNCHANGED << fnVars, webVars >>
    /\ p \in CfgProcs /\ p \in active
    /\ pc[p] = "idle"
    /\ \/ /\ Spend(1)
          /\ urls' = [urls EXCEPT ![p] = sources]
          /\ idx' = [idx EXCEPT ![p] = 1]
          /\ pc' = [pc EXCEPT ![p] =
                IF Len(sources) = 0 \/ normalizeSubscribeURLs(sources) = <<>>
                THEN "done" ELSE "scan1"]
          /\ UNCHANGED result
       \/ /\ Spend(2)
          /\ Failed(p)
          /\ UNCHANGED << urls, idx >>
    /\ UNCHANGED << storeVars, clock, proxyCacheRefreshMu, batchVars,
                    missing, all, statuses, got, sched, active,
                    ghostBatchVars >>

(***************************************************************************)
(* GET /api/proxy/cache: HandleProxyCacheAPI -> GetProxyCacheStatus         *)
(***************************************************************************)
StatusStart(p) ==
    /\ UNCHANGED << fnVars, webVars >>
    /\ p \in StatusProcs /\ p \in active
    /\ pc[p] = "idle"
    /\ \/ /\ Spend(1)
          /\ urls' = [urls EXCEPT ![p] = sources]
          /\ idx' = [idx EXCEPT ![p] = 1]
          /\ pc' = [pc EXCEPT ![p] =
                IF normalizeSubscribeURLs(sources) = <<>>
                THEN "last_run" ELSE "status1"]
          /\ UNCHANGED result
       \/ /\ Spend(2)
          /\ Failed(p)
          /\ UNCHANGED << urls, idx >>
    /\ UNCHANGED << storeVars, clock, proxyCacheRefreshMu, batchVars,
                    missing, all, statuses, got, sched, active,
                    ghostBatchVars >>

\* GetProxyCacheStatus lines 194-202
StatusLastRun(p) ==
    /\ UNCHANGED << fnVars, webVars >>
    /\ pc[p] = "last_run"
    /\ \/ /\ StoreOk
          /\ result' = [result EXCEPT ![p].LastRunAt = lastRunKey]
          /\ pc' = [pc EXCEPT ![p] = "done"]
       \/ StoreFault /\ Failed(p)
    /\ UNCHANGED << storeVars, clock, proxyCacheRefreshMu, urls, batchVars,
                    readVars, sched, active, ghostBatchVars >>

\* the goroutine's call has returned: its locals are gone
Cleared(p) ==
    /\ urls' = [urls EXCEPT ![p] = <<>>]
    /\ normalizedURLs' = [normalizedURLs EXCEPT ![p] = <<>>]
    /\ refreshedAt' = [refreshedAt EXCEPT ![p] = 0]
    /\ workers' = [workers EXCEPT ![p] = <<>>]
    /\ ch' = [ch EXCEPT ![p] = <<>>]
    /\ result' = [result EXCEPT ![p] = NoResult]
    /\ batchNo' = [batchNo EXCEPT ![p] = 0]
    /\ snapData' = [snapData EXCEPT ![p] = EmptyHash]
    /\ snapUpdated' = [snapUpdated EXCEPT ![p] = EmptyHash]

\* the handler writes its response and ends
Respond(p) ==
    /\ UNCHANGED << fnVars, webVars >>
    /\ pc[p] = "done"
    /\ pc' = [pc EXCEPT ![p] = "idle"]
    /\ Cleared(p)
    /\ idx' = [idx EXCEPT ![p] = 0]
    /\ missing' = [missing EXCEPT ![p] = <<>>]
    /\ all' = [all EXCEPT ![p] = <<>>]
    /\ statuses' = [statuses EXCEPT ![p] = <<>>]
    /\ got' = [got EXCEPT ![p] = NoGot]
    /\ UNCHANGED << storeVars, clock, proxyCacheRefreshMu, sched, active,
                    events, batchSeq, lastRunBatch, saved >>

(***************************************************************************)
(* StartDailyProxyCacheScheduler                                            *)
(***************************************************************************)
\* a decision that is never to refresh
shouldRunNever(stored, lastRunAt, now) == FALSE

\* a decision that needs more than the interval to have passed
shouldRunAfterInterval(stored, lastRunAt, now) ==
    IF Len(normalizeSubscribeURLs(stored)) = 0 THEN FALSE
    ELSE IF lastRunAt <= 0 THEN TRUE
    ELSE now - lastRunAt > proxyCacheRefreshInterval

\* shouldRunDailyRefresh lines 210-222, on the urls and the last-run time it
\* read from the store
shouldRunDailyRefresh(stored, lastRunAt, now) ==
    IF Len(normalizeSubscribeURLs(stored)) = 0 THEN FALSE
    ELSE IF lastRunAt <= 0 THEN TRUE
    ELSE now - lastRunAt >= proxyCacheRefreshInterval

\* where the scheduler goes on after a check or a refresh: the startup
\* check is followed by time.NewTicker, a tick by the wait for the next
SchedNextOf(source) == IF source = "startup" THEN "new_ticker" ELSE "wait"
SchedNext == SchedNextOf(sched.source)

\* the scheduler's loop variables outside a check
Waiting(source, tickerNext) ==
    [NoSched EXCEPT !.source = source, !.tickerNext = tickerNext]

\* shouldRunDailyRefresh lines 206-212 with now = the time given: the stored
\* urls are read; with none the answer is false
SchedCheck(p, source, now, tickerNext) ==
    LET s == [Waiting(source, tickerNext) EXCEPT !.now = now] IN
    \/ /\ StoreOk
       /\ sched' = [s EXCEPT !.urls = sources,
                             !.decided = Len(normalizeSubscribeURLs(sources)) = 0]
       /\ pc' = [pc EXCEPT ![p] =
              IF Len(normalizeSubscribeURLs(sources)) = 0
              THEN "decided" ELSE "check_last"]
    \/ /\ StoreFault
       /\ sched' = Waiting(source, tickerNext)
       /\ pc' = [pc EXCEPT ![p] = SchedNextOf(source)]

\* lines 241-246: the check at startup
SchedStartup(p) ==
    /\ UNCHANGED << fnVars, webVars >>
    /\ p \in SchedProcs /\ p \in active
    /\ pc[p] = "start"
    /\ SchedCheck(p, "startup", clock, 0)
    /\ UNCHANGED << storeVars, clock, proxyCacheRefreshMu, urls, batchVars,
                    result, readVars, active, ghostBatchVars >>

\* lines 248-249: time.NewTicker
SchedNewTicker(p) ==
    /\ UNCHANGED << fnVars, webVars >>
    /\ pc[p] = "new_ticker"
    /\ sched' = Waiting("daily", clock + proxyCacheSchedulerTick)
    /\ pc' = [pc EXCEPT ![p] = "wait"]
    /\ UNCHANGED << storeVars, clock, proxyCacheRefreshMu, urls, batchVars,
                    result, readVars, active, events, ghostBatchVars >>

\* lines 251-256: a tick is received; the ticker fires again one period
\* later
SchedTick(p) ==
    /\ UNCHANGED << fnVars, webVars >>
    /\ pc[p] = "wait"
    /\ clock >= sched.tickerNext
    /\ SchedCheck(p, "daily", clock, clock + proxyCacheSchedulerTick)
    /\ UNCHANGED << storeVars, clock, proxyCacheRefreshMu, urls, batchVars,
                    result, readVars, active, ghostBatchVars >>

\* shouldRunDailyRefresh lines 214-222
SchedReadLastRun(p) ==
    /\ UNCHANGED << fnVars, webVars >>
    /\ pc[p] = "check_last"
    /\ \/ /\ StoreOk
          /\ sched' = [sched EXCEPT
                 !.lastRunAt = lastRunKey,
                 !.ok = shouldRunDailyRefresh(sched.urls, lastRunKey, sched.now),
                 !.decided = TRUE]
          /\ pc' = [pc EXCEPT ![p] = "decided"]
       \/ /\ StoreFault
          /\ pc' = [pc EXCEPT ![p] = SchedNext]
          /\ sched' = Waiting(sched.source, sched.tickerNext)
    /\ UNCHANGED << storeVars, clock, proxyCacheRefreshMu, urls, batchVars,
                    result, readVars, active, ghostBatchVars >>

\* lines 244-246 and 257-259: runRefresh is called when the answer is true;
\* runRefresh lines 227-232: RefreshProxyCacheFromStore reads the urls
SchedRun(p) ==
    /\ UNCHANGED << fnVars, webVars >>
    /\ pc[p] = "decided"
    /\ IF sched.ok
       THEN \/ /\ StoreOk
               /\ urls' = [urls EXCEPT ![p] = sources]
               /\ pc' = [pc EXCEPT ![p] = "lock"]
               /\ UNCHANGED sched
            \/ /\ StoreFault
               /\ pc' = [pc EXCEPT ![p] = SchedNext]
               /\ sched' = Waiting(sched.source, sched.tickerNext)
               /\ UNCHANGED urls
       ELSE /\ pc' = [pc EXCEPT ![p] = SchedNext]
            /\ sched' = Waiting(sched.source, sched.tickerNext)
            /\ UNCHANGED << urls, events >>
    /\ UNCHANGED << storeVars, clock, proxyCacheRefreshMu, batchVars, result,
                    readVars, active, ghostBatchVars >>

\* runRefresh lines 233-237: the outcome is logged
SchedLog(p) ==
    /\ UNCHANGED << fnVars, webVars >>
    /\ p \in SchedProcs
    /\ pc[p] = "log"
    /\ pc' = [pc EXCEPT ![p] = SchedNext]
    /\ sched' = Waiting(sched.source, sched.tickerNext)
    /\ Cleared(p)
    /\ UNCHANGED << storeVars, clock, proxyCacheRefreshMu, readVars, active,
                    events, batchSeq, lastRunBatch, saved >>

(***************************************************************************)
(* POST /api/config: HandleConfigAPI -> SaveSubscribeUrls                   *)
(***************************************************************************)
SaveSubscribeUrls(list) ==
    /\ UNCHANGED << fnVars, webVars >>
    /\ Spend(1)
    /\ list # sources
    /\ sources' = list
    /\ UNCHANGED << cacheData, cacheUpdated, lastRunKey, clock,
                    proxyCacheRefreshMu, pc, urls, batchVars, result,
                    readVars, sched, active,
                    ghostBatchVars >>

(***************************************************************************)
(* The wall clock                                                           *)
(***************************************************************************)
\* The clock moves by one tick period or by one tick less than the refresh
\* interval; without the scheduler only the order of the times matters and
\* the first suffices.
ClockSteps ==
    { proxyCacheSchedulerTick,
      proxyCacheRefreshInterval - proxyCacheSchedulerTick }

\* some goroutine is about to read the clock: time that passes unobserved
\* is folded into the advance before the next reading
ClockRead == \E p \in Procs : pc[p] \in {"lock", "start", "new_ticker", "wait"}

Advance(d) ==
    /\ UNCHANGED << fnVars, webVars >>
    /\ ClockRead
    /\ active \cap SchedProcs = {} => d = proxyCacheSchedulerTick
    /\ Spend(1)
    /\ clock' = clock + d
    /\ UNCHANGED << storeVars, proxyCacheRefreshMu, pc, urls, batchVars,
                    result, readVars, sched, active,
                    ghostBatchVars >>

(***************************************************************************)
(* Stash profiles: redis_profile.go                                         *)
(***************************************************************************)
HDel(h, field) == [f \in (DOMAIN h) \ {field} |-> h[f]]

\* lines 28-34, on names that carry no blanks
normalizeProfileName(name) ==
    IF name = "" THEN DefaultStashProfileName ELSE name

\* lines 41-50
normalizeProfileContent(content) ==
    IF TrimSpace(content) = << >> THEN defaultStashProfileYAML
    ELSE TrimSpace(content) \o << "LF" >>

\* the lines of a document that are not blank, without the blanks that end
\* them
yamlLines(content) ==
    SelectSeq([i \in DOMAIN SplitLines(content) |->
                  TrimRight(SplitLines(content)[i])],
              LAMBDA line : line # << >>)

\* the line is one entry of a block mapping that starts in the first column
isEntry(line) == Len(line) = 1 /\ line[1] \in DOMAIN YAMLEntries

\* the entries of the first n lines, a later entry replacing an earlier one
RECURSIVE entriesOf(_, _)
entriesOf(lines, n) ==
    IF n = 0 THEN NoKeys
    ELSE setKey(entriesOf(lines, n - 1),
                YAMLEntries[lines[n][1]].key, YAMLEntries[lines[n][1]].value)

\* yaml.Unmarshal into a map[string]interface{}: the map decoded, nil for a
\* document without content, and an error for a document that is no mapping
\* (a sequence, an entry that is indented or follows another on its line, a
\* flow collection that is not closed, a key given twice); with the error
\* the map holds the entries decoded before it
yamlUnmarshal(content) ==
    LET lines == yamlLines(content)
        good == { n \in 0..Len(lines) :
                    /\ \A i \in 1..n : isEntry(lines[i])
                    /\ \A i, j \in 1..n :
                          YAMLEntries[lines[i][1]].key
                             = YAMLEntries[lines[j][1]].key => i = j }
        n == CHOOSE k \in good : \A j \in good : j <= k
    IN IF lines = << >> THEN [err |-> FALSE, parsed |-> NilMap]
       ELSE IF lines = << << "{}" >> >>
       THEN [err |-> FALSE, parsed |-> Map(NoKeys)]
       ELSE [err |-> n < Len(lines), parsed |-> Map(entriesOf(lines, n))]

\* a parse that returns what was decoded and no error
parseLenient(content) ==
    LET r == yamlUnmarshal(normalizeProfileContent(content))
    IN [err |-> FALSE,
        parsed |-> IF r.parsed = NilMap THEN Map(NoKeys) ELSE r.parsed]

\* lines 53-64
ParseStashProfileContent(content) ==
    LET r == yamlUnmarshal(normalizeProfileContent(content))
    IN IF r.err THEN [err |-> TRUE, parsed |-> NilMap]
       ELSE [err |-> FALSE,
             parsed |-> IF r.parsed = NilMap THEN Map(NoKeys) ELSE r.parsed]

\* lines 132-155 on a store that answers
GetStashProfileMap(name) ==
    IF normalizeProfileName(name) \notin DOMAIN profileHash
    THEN [err |-> TRUE, parsed |-> NilMap]
    ELSE ParseStashProfileContent(profileHash[normalizeProfileName(name)])

\* the profile documents an administrator may supply
ProfileTexts ==
    { << >>, << " ", "LF" >>,
      << "mode_global" >>, << " ", "mode_global", " ", "LF", "LF" >>,
      << "dns_ipv6", "LF", "mode_global" >>,
      << "mode_global", "LF", " ", "dns_ipv6" >>,
      << "mode_global", "dns_ipv6" >>,
      << "mode_global", "LF", "mode_global" >>,
      << "seq_item" >>, << "dns_ipv6", "LF", "seq_item" >>,
      << "open_flow" >>, << "dns_ipv6", "LF", "open_flow", "LF" >> }

\* what a call of the profile API returned
Returns(op, valid, err) ==
    ret' = [called |-> TRUE, out |-> [op |-> op, valid |-> valid, err |-> err]]

\* the document, once normalized, decodes as a mapping
Decodes(content) == ~yamlUnmarshal(normalizeProfileContent(content)).err

\* lines 67-85 called by ListStashProfiles (line 93): the default profile
\* is created when the hash has none
ListStashProfiles ==
    /\ DefaultStashProfileName \notin DOMAIN profileHash
    /\ StoreOk
    /\ profileHash' =
          HSet(profileHash, DefaultStashProfileName, defaultStashProfileYAML)
    /\ UNCHANGED << fnVars, cacheVars, authVars, req >>

\* lines 158-180
CreateStashProfile(name, content) ==
    /\ Spend(1)
    /\ IF ParseStashProfileContent(content).err
       THEN /\ Returns("create", Decodes(content), "invalid yaml")
            /\ UNCHANGED profileHash
       ELSE IF normalizeProfileName(name) \in DOMAIN profileHash
       THEN /\ Returns("create", Decodes(content), "already exists")
            /\ UNCHANGED profileHash
       ELSE /\ Returns("create", Decodes(content), "")
            /\ profileHash' = HSet(profileHash, normalizeProfileName(name),
                                   normalizeProfileContent(content))
    /\ UNCHANGED << arg, cacheVars, authVars, req >>

\* lines 183-205
UpdateStashProfile(name, content) ==
    /\ Spend(1)
    /\ IF ParseStashProfileContent(content).err
       THEN /\ Returns("update", Decodes(content), "invalid yaml")
            /\ UNCHANGED profileHash
       ELSE IF normalizeProfileName(name) \notin DOMAIN profileHash
       THEN /\ Returns("update", Decodes(content), "not found")
            /\ UNCHANGED profileHash
       ELSE /\ Returns("update", Decodes(content), "")
            /\ profileHash' = HSet(profileHash, normalizeProfileName(name),
                                   normalizeProfileContent(content))
    /\ UNCHANGED << arg, cacheVars, authVars, req >>

(***************************************************************************)
(* Subscribers, sessions and the admin account                              *)
(***************************************************************************)
\* the three hashes of the subscribers after the first n commands of a
\* pipeline: the commands are sent in order and Exec fails when the
\* connection breaks, with the commands before the break executed
RECURSIVE Pipelined(_, _)
Pipelined(cmds, n) ==
    IF n = 0
    THEN [token |-> tokenHash, userToken |-> userTokenHash,
          userProfile |-> userProfileHash]
    ELSE LET h == Pipelined(cmds, n - 1)
             c == cmds[n]
         IN [h EXCEPT ![c.hash] = IF c.op = "HSET"
                                  THEN HSet(@, c.field, c.value)
                                  ELSE HDel(@, c.field)]

\* pipe.Exec: every command, or on a failure the commands before the break
Exec(cmds) ==
    \E n \in 0..Len(cmds) :
        /\ IF n = Len(cmds) THEN StoreOk ELSE StoreFault
        /\ tokenHash' = Pipelined(cmds, n).token
        /\ userTokenHash' = Pipelined(cmds, n).userToken
        /\ userProfileHash' = Pipelined(cmds, n).userProfile

\* part_008 lines 29-83, for a name and a profile that pass the checks
AddSubscriber(username, profileName) ==
    /\ username # ""
    /\ normalizeProfileName(profileName) \in DOMAIN profileHash
    /\ username \notin DOMAIN userTokenHash
    /\ \E token \in APITokens \ DOMAIN tokenHash :
          Exec(<< [op |-> "HSET", hash |-> "token",
                   field |-> token, value |-> username],
                  [op |-> "HSET", hash |-> "userToken",
                   field |-> username, value |-> token],
                  [op |-> "HSET", hash |-> "userProfile",
                   field |-> username,
                   value |-> normalizeProfileName(profileName)] >>)
    /\ UNCHANGED << fnVars, cacheVars, sessionKeys, adminUsername,
                    profileHash, req >>

\* part_008 lines 168-195, for a subscriber that exists
DeleteSubscriber(username) ==
    /\ username \in DOMAIN userTokenHash
    /\ Exec(<< [op |-> "HDEL", hash |-> "userToken", field |-> username],
               [op |-> "HDEL", hash |-> "userProfile", field |-> username],
               [op |-> "HDEL", hash |-> "token",
                field |-> userTokenHash[username]] >>)
    /\ UNCHANGED << fnVars, cacheVars, sessionKeys, adminUsername,
                    profileHash, req >>

\* HandleLogin: AuthenticateAdmin (part_006 lines 92-115) accepts the admin
\* username only, and CreateSession (lines 192-211) stores the session
Login(username, session) ==
    /\ adminUsername # "" /\ username = adminUsername
    /\ session \notin DOMAIN sessionKeys
    /\ StoreOk
    /\ sessionKeys' = HSet(sessionKeys, session, username)
    /\ UNCHANGED << fnVars, cacheVars, subscriberVars, adminUsername,
                    profileHash, req >>

\* the key of a session expires 24 hours after CreateSession set it
SessionExpires(session) ==
    /\ session \in DOMAIN sessionKeys
    /\ StoreOk
    /\ sessionKeys' = HDel(sessionKeys, session)
    /\ UNCHANGED << fnVars, cacheVars, subscriberVars, adminUsername,
                    profileHash, req >>

\* part_006 lines 135-189 with the current password, what it does to the
\* store: the sessions stay
UpdateAdminCredentialsStore(newUsername) ==
    /\ newUsername # "" /\ newUsername # adminUsername
    /\ StoreOk
    /\ adminUsername' = newUsername
    /\ UNCHANGED << cacheVars, subscriberVars, sessionKeys, profileHash,
                    req >>

UpdateAdminCredentials(newUsername) ==
    /\ UpdateAdminCredentialsStore(newUsername)
    /\ UNCHANGED fnVars

(***************************************************************************)
(* GET /: HandleGetConfig from the request to the response                  *)
(***************************************************************************)
\* part_004 lines 22-90: the generated document, by the keys an overlay of
\* the model may touch and the nodes
BuildConfigMap(proxies) ==
    Map([mode |-> Scalar(1),
         dns |-> Map([enable |-> Scalar(1)]),
         proxies |-> << "nodes",
                        [i \in DOMAIN proxies |-> << "node", proxies[i] >>] >>])

\* overlays merged from the last to the first
RECURSIVE mergeOverlaysLastFirst(_, _)
mergeOverlaysLastFirst(config, overlays) ==
    IF overlays = << >> THEN config
    ELSE mergeOverlaysLastFirst(
             DeepMergeMap(config, overlays[Len(overlays)]),
             SubSeq(overlays, 1, Len(overlays) - 1))

\* part_004 lines 13-19: the overlays merged in their order
RECURSIVE mergeOverlays(_, _)
mergeOverlays(config, overlays) ==
    IF overlays = << >> THEN config
    ELSE mergeOverlays(DeepMergeMap(config, Head(overlays)), Tail(overlays))

GenerateConfig(proxies, overlays) ==
    mergeOverlays(BuildConfigMap(proxies), overlays)

\* the warning served when no subscribe url is stored
NoSourcesWarning == << "warning" >>

RequestMethods == { "GET", "HEAD", "POST" }
RequestTokens == { "" } \cup APITokens
RequestCookies == { "" } \cup SessionTokens

\* the handler writes its status line
Answer(status) == req' = [req EXCEPT !.stage = "answered", !.status = status]

\* any username the session maps to counts as the admin
anySessionIsAdmin(username, admin) == username # ""

\* api.go lines 124-130
isAdminUsername(username, admin) ==
    username # "" /\ admin # "" /\ username = admin

\* part_003 lines 167-170 and api.go lines 182-183: a request arrives
Arrive(p, method, token, cookie) ==
    /\ p \in CfgProcs /\ p \in active
    /\ pc[p] = "idle" /\ req.stage = "none"
    /\ req' = [NoRequest EXCEPT
                  !.method = method, !.token = token, !.cookie = cookie,
                  !.stage = IF method \notin {"GET", "HEAD"} THEN "answered"
                            ELSE IF token # "" THEN "token" ELSE "session",
                  !.status = IF method \notin {"GET", "HEAD"} THEN 405 ELSE 0]
    /\ UNCHANGED << fnVars, cacheVars, events, authVars, profileHash >>

\* api.go lines 184-191 with ValidateAPIToken (part_008 lines 198-210)
ValidateAPIToken(p) ==
    /\ req.stage = "token"
    /\ \/ StoreFault /\ Answer(500)
       \/ /\ StoreOk
          /\ LET username == IF req.token \in DOMAIN tokenHash
                             THEN tokenHash[req.token] ELSE ""
             IN req' = IF username # ""
                       THEN [req EXCEPT !.username = username,
                                        !.isAdmin = FALSE,
                                        !.stage = "granted"]
                       ELSE [req EXCEPT !.stage = "session"]
    /\ UNCHANGED << fnVars, cacheVars, authVars, profileHash >>

\* api.go lines 194-200 with getSessionUsername (lines 116-122) and
\* ValidateSession (part_006 lines 214-229)
ValidateSession(p) ==
    /\ req.stage = "session"
    /\ IF req.cookie = "" THEN StoreOk /\ Answer(401)
       ELSE \/ StoreFault /\ Answer(500)
            \/ /\ StoreOk
               /\ LET username == IF req.cookie \in DOMAIN sessionKeys
                                  THEN sessionKeys[req.cookie] ELSE ""
                  IN IF username = "" THEN Answer(401)
                     ELSE req' = [req EXCEPT !.username = username,
                                             !.stage = "admin"]
    /\ UNCHANGED << fnVars, cacheVars, authVars, profileHash >>

\* api.go lines 202-208 with GetAdminUsername (part_006 lines 118-133)
CheckAdmin(p) ==
    /\ req.stage = "admin"
    /\ \/ StoreFault /\ Answer(500)
       \/ /\ StoreOk
          /\ IF isAdminUsername(req.username, adminUsername)
             THEN req' = [req EXCEPT !.isAdmin = TRUE, !.stage = "granted"]
             ELSE Answer(401)
    /\ UNCHANGED << fnVars, cacheVars, authVars, profileHash >>

\* part_003 lines 183-203: the stored urls are read and
\* BuildProxiesFromCache is called, for a requester that was resolved
ServeStart(p) ==
    /\ req.stage = "granted"
    /\ CfgStart(p)

\* part_003 lines 184-210: the errors of the reads, the warning, and the
\* default profile
LoadDefaultProfile(p) ==
    /\ req.stage = "granted" /\ pc[p] = "done"
    /\ IF result[p].err # "" THEN StoreOk /\ Answer(500)
       ELSE IF Len(urls[p]) = 0
       THEN /\ StoreOk
            /\ req' = [req EXCEPT !.stage = "answered", !.status = 200,
                                  !.body = NoSourcesWarning]
       ELSE \/ StoreFault /\ Answer(500)
            \/ /\ StoreOk
               /\ LET r == GetStashProfileMap(DefaultStashProfileName)
                  IN IF r.err THEN Answer(500)
                     ELSE req' = [req EXCEPT
                                     !.overlays = << r.parsed >>,
                                     !.selected = DefaultStashProfileName,
                                     !.stage = IF req.isAdmin THEN "generate"
                                               ELSE "subscriber"]
    /\ UNCHANGED << fnVars, cacheVars, authVars, profileHash >>

\* part_003 lines 212-220 with GetSubscriberProfile (part_008 lines 117-134)
LoadSubscriberProfile(p) ==
    /\ req.stage = "subscriber"
    /\ \/ StoreFault /\ Answer(500)
       \/ /\ StoreOk
          /\ LET name == IF req.username \in DOMAIN userProfileHash
                            /\ userProfileHash[req.username] # ""
                         THEN userProfileHash[req.username]
                         ELSE DefaultStashProfileName
             IN req' = [req EXCEPT
                           !.selected = name,
                           !.stage = IF name # DefaultStashProfileName
                                     THEN "selected" ELSE "generate"]
    /\ UNCHANGED << fnVars, cacheVars, authVars, profileHash >>

\* part_003 lines 222-231
LoadSelectedProfile(p) ==
    /\ req.stage = "selected"
    /\ \/ StoreFault /\ Answer(500)
       \/ /\ StoreOk
          /\ LET r == GetStashProfileMap(req.selected)
             IN IF r.err THEN Answer(500)
                ELSE req' = [req EXCEPT
                                !.overlays = Append(@, r.parsed),
                                !.stage = "generate"]
    /\ UNCHANGED << fnVars, cacheVars, authVars, profileHash >>

\* part_003 lines 233-243
WriteConfig(p) ==
    /\ req.stage = "generate"
    /\ StoreOk
    /\ req' = [req EXCEPT !.stage = "answered", !.status = 200,
                          !.body = GenerateConfig(all[p], req.overlays)]
    /\ UNCHANGED << fnVars, cacheVars, authVars, profileHash >>

\* the handler returns: what BuildProxiesFromCache left is dropped
ServeEnd(p) ==
    /\ req.stage = "answered"
    /\ Respond(p)

\* the response has been sent
Served(p) ==
    /\ req.stage = "answered" /\ pc[p] = "idle"
    /\ StoreOk
    /\ req' = NoRequest
    /\ UNCHANGED << fnVars, cacheVars, authVars, profileHash >>

Next ==
    \/ \E p \in Procs : ManualRefresh(p)
    \/ \E p \in Procs : RefreshLock(p)
    \/ \E p \in Procs : \E i \in 1..3 : WorkerFetch(p, i)
    \/ \E p \in Procs : \E i \in 1..3 : WorkerHSetData(p, i)
    \/ \E p \in Procs : \E i \in 1..3 : WorkerHSetUpdated(p, i)
    \/ \E p \in Procs : RefreshFinish(p)
    \/ \E p \in Procs : CfgStart(p)
    \/ \E p \in Procs : StatusStart(p)
    \/ \E p \in Procs : HGetData(p)
    \/ \E p \in Procs : HGetUpdated(p)
    \/ \E p \in Procs : StatusLastRun(p)
    \/ \E p \in Procs : Respond(p)
    \/ \E p \in Procs : SchedStartup(p)
    \/ \E p \in Procs : SchedNewTicker(p)
    \/ \E p \in Procs : SchedTick(p)
    \/ \E p \in Procs : SchedReadLastRun(p)
    \/ \E p \in Procs : SchedRun(p)
    \/ \E p \in Procs : SchedLog(p)
    \/ \E list \in SourceLists : SaveSubscribeUrls(list)
    \/ \E d \in ClockSteps : Advance(d)

Spec == Init /\ [][Next]_vars

(***************************************************************************)
(* The scheduler goroutine on its own, with store reads that succeed.  The  *)
(* goroutine keeps running while it has a step to take: a tick that is due  *)
(* is received, a fetch returns or times out, a store command returns.      *)
(***************************************************************************)
SchedInit == Init /\ active \cap SchedProcs # {}

\* the scheduler's reads of the store, none of them failing
SchedStartupRead(p) == SchedStartup(p) /\ events' = events
SchedTickRead(p) == SchedTick(p) /\ events' = events
SchedLastRunRead(p) == SchedReadLastRun(p) /\ events' = events
SchedRunRead(p) == SchedRun(p) /\ events' = events

\* a step of the scheduler goroutine or of the workers of its batch
SchedStep ==
    \E p \in SchedProcs :
        \/ SchedStartupRead(p)
        \/ SchedNewTicker(p)
        \/ SchedTickRead(p)
        \/ SchedLastRunRead(p)
        \/ SchedRunRead(p)
        \/ RefreshLock(p)
        \/ \E i \in 1..3 : WorkerFetch(p, i)
        \/ \E i \in 1..3 : WorkerHSetData(p, i)
        \/ \E i \in 1..3 : WorkerHSetUpdated(p, i)
        \/ RefreshFinish(p)
        \/ SchedLog(p)

SchedNextStep ==
    \/ \E p \in SchedProcs : SchedStartupRead(p)
    \/ \E p \in SchedProcs : SchedNewTicker(p)
    \/ \E p \in SchedProcs : SchedTickRead(p)
    \/ \E p \in SchedProcs : SchedLastRunRead(p)
    \/ \E p \in SchedProcs : SchedRunRead(p)
    \/ \E p \in SchedProcs : RefreshLock(p)
    \/ \E p \in SchedProcs : \E i \in 1..3 : WorkerFetch(p, i)
    \/ \E p \in SchedProcs : \E i \in 1..3 : WorkerHSetData(p, i)
    \/ \E p \in SchedProcs : \E i \in 1..3 : WorkerHSetUpdated(p, i)
    \/ \E p \in SchedProcs : RefreshFinish(p)
    \/ \E p \in SchedProcs : SchedLog(p)
    \/ \E list \in SourceLists : SaveSubscribeUrls(list)
    \/ \E d \in ClockSteps : Advance(d)

SchedSpec == SchedInit /\ [][SchedNextStep]_vars /\ WF_vars(SchedStep)

(***************************************************************************)
(* Configuration requests: alone over three sources, and next to a manual   *)
(* refresh.                                                                 *)
(***************************************************************************)
BuildScenarios ==
    { << {"cfg1"}, ThreeSources >>, << {"manual", "cfg1"}, TwoSources >> }

BuildInit ==
    /\ \E sc \in BuildScenarios : active = sc[1] /\ sources = sc[2]
    /\ Constructed
    /\ Installed
    /\ arg = << >>
    /\ ret = NotCalled

BuildNext ==
    \/ \E p \in CfgProcs : CfgStart(p)
    \/ \E p \in CfgProcs : HGetData(p)
    \/ \E p \in ManualProcs : ManualRefresh(p)
    \/ \E p \in Procs : RefreshLock(p)
    \/ \E p \in Procs : \E i \in 1..3 : WorkerFetch(p, i)
    \/ \E p \in Procs : \E i \in 1..3 : WorkerHSetData(p, i)
    \/ \E p \in Procs : \E i \in 1..3 : WorkerHSetUpdated(p, i)
    \/ \E p \in Procs : RefreshFinish(p)
    \/ \E p \in Procs : Respond(p)
    \/ \E list \in SourceLists : SaveSubscribeUrls(list)
    \/ \E d \in ClockSteps : Advance(d)

BuildSpec == BuildInit /\ [][BuildNext]_vars

(***************************************************************************)
(* The refresh batches with the scheduling the runtime gives them.  A       *)
(* worker goroutine keeps running: its fetch returns or times out (the      *)
(* client has a 30 s timeout), its store commands return, its send finds    *)
(* room in the channel; wg.Wait returns once every worker is done.  A       *)
(* goroutine blocked in Lock gets the mutex if it is free again and again:  *)
(* sync.Mutex hands the mutex to a waiter that has waited for 1 ms.         *)
(***************************************************************************)
\* a step of the batch of p: of one of its workers, or the return
BatchStep(p) ==
    \/ \E i \in 1..3 : WorkerFetch(p, i)
    \/ \E i \in 1..3 : WorkerHSetData(p, i)
    \/ \E i \in 1..3 : WorkerHSetUpdated(p, i)
    \/ RefreshFinish(p)

\* a manual refresh next to a configuration request, and a manual refresh
\* of a list that normalizes to nothing
RefreshLiveScenarios ==
    { << {"manual", "cfg1"}, TwoSources >>, << {"manual"}, << urlBlank >> >> }

RefreshLiveInit ==
    /\ \E sc \in RefreshLiveScenarios : active = sc[1] /\ sources = sc[2]
    /\ Constructed
    /\ Installed
    /\ arg = << >>
    /\ ret = NotCalled

RefreshLiveNext ==
    \/ \E p \in CfgProcs : CfgStart(p)
    \/ \E p \in CfgProcs : HGetData(p)
    \/ \E p \in ManualProcs : ManualRefresh(p)
    \/ \E p \in Procs : RefreshLock(p)
    \/ \E p \in Procs : \E i \in 1..3 : WorkerFetch(p, i)
    \/ \E p \in Procs : \E i \in 1..3 : WorkerHSetData(p, i)
    \/ \E p \in Procs : \E i \in 1..3 : WorkerHSetUpdated(p, i)
    \/ \E p \in Procs : RefreshFinish(p)
    \/ \E p \in Procs : Respond(p)

RefreshLiveSpec ==
    /\ RefreshLiveInit
    /\ [][RefreshLiveNext]_vars
    /\ \A p \in ManualProcs \cup CfgProcs :
          SF_vars(RefreshLock(p)) /\ WF_vars(BatchStep(p))

(***************************************************************************)
(* The scheduler next to a manual refresh: POST /api/proxy-cache/refresh    *)
(* is served while the scheduler goroutine runs.                            *)
(***************************************************************************)
SchedRaceInit ==
    /\ active = {"sched", "manual"}
    /\ sources = OneSource
    /\ Constructed
    /\ Installed
    /\ arg = << >>
    /\ ret = NotCalled

SchedRaceNext ==
    \/ \E p \in ManualProcs : ManualRefresh(p)
    \/ \E p \in ManualProcs : Respond(p)
    \/ \E p \in SchedProcs : SchedStartup(p)
    \/ \E p \in SchedProcs : SchedNewTicker(p)
    \/ \E p \in SchedProcs : SchedTick(p)
    \/ \E p \in SchedProcs : SchedReadLastRun(p)
    \/ \E p \in SchedProcs : SchedRun(p)
    \/ \E p \in SchedProcs : SchedLog(p)
    \/ \E p \in Procs : RefreshLock(p)
    \/ \E p \in Procs : \E i \in 1..3 : WorkerFetch(p, i)
    \/ \E p \in Procs : \E i \in 1..3 : WorkerHSetData(p, i)
    \/ \E p \in Procs : \E i \in 1..3 : WorkerHSetUpdated(p, i)
    \/ \E p \in Procs : RefreshFinish(p)
    \/ \E d \in ClockSteps : Advance(d)

SchedRaceSpec == SchedRaceInit /\ [][SchedRaceNext]_vars

(***************************************************************************)
(* Configuration requests with their credentials, next to the               *)
(* administrator's changes of subscribers, sessions and admin name.  Two    *)
(* profiles are stored.                                                     *)
(***************************************************************************)
StoredProfile == << "mode_global", "LF" >>

AuthInit ==
    /\ active = {"cfg1"} /\ sources = OneSource
    /\ Constructed
    /\ arg = << >> /\ ret = NotCalled
    /\ tokenHash = EmptyHash
    /\ userTokenHash = EmptyHash
    /\ userProfileHash = EmptyHash
    /\ sessionKeys = EmptyHash
    /\ adminUsername = DefaultAdmin
    /\ profileHash = HSet(HSet(EmptyHash, DefaultStashProfileName,
                               defaultStashProfileYAML),
                          "p1", StoredProfile)
    /\ req = NoRequest

\* the steps of the handler after the requester was resolved, with those of
\* BuildProxiesFromCache and of the batch it may start
ServeNext ==
    \/ \E p \in CfgProcs : ServeStart(p)
    \/ \E p \in CfgProcs : HGetData(p)
    \/ \E p \in CfgProcs : RefreshLock(p)
    \/ \E p \in CfgProcs : \E i \in 1..3 : WorkerFetch(p, i)
    \/ \E p \in CfgProcs : \E i \in 1..3 : WorkerHSetData(p, i)
    \/ \E p \in CfgProcs : \E i \in 1..3 : WorkerHSetUpdated(p, i)
    \/ \E p \in CfgProcs : RefreshFinish(p)
    \/ \E p \in CfgProcs : LoadDefaultProfile(p)
    \/ \E p \in CfgProcs : LoadSubscriberProfile(p)
    \/ \E p \in CfgProcs : LoadSelectedProfile(p)
    \/ \E p \in CfgProcs : WriteConfig(p)
    \/ \E p \in CfgProcs : ServeEnd(p)
    \/ \E p \in CfgProcs : Served(p)

AuthNext ==
    \/ \E p \in CfgProcs : \E method \in RequestMethods :
          \E token \in RequestTokens : \E cookie \in RequestCookies :
             Arrive(p, method, token, cookie)
    \/ \E p \in CfgProcs : ValidateAPIToken(p)
    \/ \E p \in CfgProcs : ValidateSession(p)
    \/ \E p \in CfgProcs : CheckAdmin(p)
    \/ ServeNext
    \/ \E u \in Subscribers : \E n \in {"", "p1"} : AddSubscriber(u, n)
    \/ \E u \in Subscribers : DeleteSubscriber(u)
    \/ \E u \in AdminNames : \E t \in SessionTokens : Login(u, t)
    \/ \E t \in SessionTokens : SessionExpires(t)
    \/ \E u \in AdminNames : UpdateAdminCredentials(u)

AuthSpec == AuthInit /\ [][AuthNext]_vars

(***************************************************************************)
(* Configuration requests of one subscriber whose profile is p1, next to    *)
(* the administrator's calls of the profile API.                            *)
(***************************************************************************)
ProfileInit ==
    /\ active = {"cfg1"} /\ sources = OneSource
    /\ Constructed
    /\ arg = << >> /\ ret = NotCalled
    /\ tokenHash = HSet(EmptyHash, "t1", "alice")
    /\ userTokenHash = HSet(EmptyHash, "alice", "t1")
    /\ userProfileHash = HSet(EmptyHash, "alice", "p1")
    /\ sessionKeys = EmptyHash
    /\ adminUsername = DefaultAdmin
    /\ profileHash = HSet(EmptyHash, "p1", StoredProfile)
    /\ req = NoRequest

ProfileNext ==
    \/ \E p \in CfgProcs : Arrive(p, "GET", "t1", "")
    \/ \E p \in CfgProcs : ValidateAPIToken(p)
    \/ ServeNext
    \/ ListStashProfiles
    \/ \E n \in ProfileNames : \E c \in ProfileTexts : CreateStashProfile(n, c)
    \/ \E n \in ProfileNames : \E c \in ProfileTexts : UpdateStashProfile(n, c)

ProfileSpec == ProfileInit /\ [][ProfileNext]_vars

(***************************************************************************)
(* normalizeSubscribeURLs called on its own, and again on what it returned. *)
(***************************************************************************)
NormInit ==
    /\ NoGoroutines
    /\ arg \in ListsOf(URLStrings, MaxLen)
    /\ ret = NotCalled

NormCall ==
    /\ ~ret.called
    /\ ret' = [called |-> TRUE, out |-> normalizeSubscribeURLs(arg),
               again |-> FALSE]
    /\ UNCHANGED << arg, progVars >>

NormRecall ==
    /\ ret.called
    /\ ~ret.again
    /\ ret' = [called |-> TRUE, out |-> normalizeSubscribeURLs(ret.out),
               again |-> TRUE]
    /\ UNCHANGED << arg, progVars >>

NormNext == NormCall \/ NormRecall

NormSpec == NormInit /\ [][NormNext]_vars

(***************************************************************************)
(* parseSSR on the text of its decoded payload, called on its own.          *)
(***************************************************************************)
\* strconv.Itoa and the %d of fmt.Sprintf for a number that is not negative
RECURSIVE Itoa(_)
Itoa(n) ==
    LET d == CHOOSE c \in Digits : Digit[c] = n % 10
    IN IF n < 10 THEN << d >> ELSE Itoa(n \div 10) \o << d >>

\* a line 343 that cuts nothing off
mainPartWhole(decoded) == decoded

\* subscriber.go line 343, strings.Split(decoded, "/?")[0]: the text before
\* the first "/?", all of it when there is none
mainPartOf(decoded) ==
    LET at == { i \in 1..(Len(decoded) - 1) :
                   decoded[i] = "/" /\ decoded[i + 1] = "?" }
    IN IF at = {} THEN decoded
       ELSE SubSeq(decoded, 1,
                   (CHOOSE i \in at : \A j \in at : i <= j) - 1)

\* subscriber.go line 344, strings.Split(mainPart, ":")
RECURSIVE SplitColon(_)
SplitColon(str) ==
    IF \A i \in DOMAIN str : str[i] # ":" THEN << str >>
    ELSE LET n == CHOOSE i \in DOMAIN str :
                     str[i] = ":" /\ \A j \in 1..(i - 1) : str[j] # ":"
         IN << SubSeq(str, 1, n - 1) >>
               \o SplitColon(SubSeq(str, n + 1, Len(str)))

\* subscriber.go lines 358-365: the password, empty when the field is no
\* base64 text
ssrPassword(passB64) ==
    IF decodePadded(passB64).err THEN << >>
    ELSE decodePadded(passB64).decoded

\* subscriber.go lines 332-377; payload is what DecodeString gave at line
\* 338
parseSSRPayload(payload) ==
    IF payload.err THEN nil
    ELSE LET parts == SplitColon(mainPartOf(payload.decoded)) IN
         IF Len(parts) < 6 THEN nil
         ELSE [name |-> << "S", "S", "R", "-" >> \o parts[1] \o << ":" >>
                           \o Itoa(Atoi(parts[2]).val),
               type |-> "ssr",
               server |-> parts[1],
               port |-> << "int", Atoi(parts[2]).val >>,
               cipher |-> parts[4],
               password |-> ssrPassword(parts[6]),
               protocol |-> parts[3],
               obfs |-> parts[5],
               udp |-> TRUE]

\* what a field of the payload may hold, by its place: server, port,
\* protocol, method, obfs, password, and whatever follows
SSRPasswords ==
    { << >>, << "Y", "Q" >>, << "Y", "W", "J", "j" >>, << "Y" >>,
      << "-", "_" >> }

SSRFieldValues(i) ==
    CASE i = 1 -> { host, << >> }
      [] i = 2 -> { port80, portBad }
      [] i = 6 -> SSRPasswords
      [] OTHER -> { << "p" >> }

RECURSIVE JoinColon(_)
JoinColon(parts) ==
    IF Len(parts) = 1 THEN parts[1]
    ELSE parts[1] \o << ":" >> \o JoinColon(Tail(parts))

\* what may follow the fields: nothing, parameters, parameters with colons,
\* a slash that starts no parameters
SSRSuffixes ==
    { << >>, << "/", "?", "r" >>, << "/", "?", "a", ":", "b" >>, << "/" >> }

\* the lists of n fields
RECURSIVE SSRParts(_)
SSRParts(n) ==
    IF n = 0 THEN { << >> }
    ELSE { Append(parts, v) : parts \in SSRParts(n - 1),
                              v \in SSRFieldValues(n) }

\* payloads of one field up to three more than MaxLen
SSRPayloads ==
    { [err |-> TRUE, decoded |-> << >>] } \cup
    UNION { { [err |-> FALSE, decoded |-> JoinColon(parts) \o suffix] :
                 parts \in SSRParts(n),
                 suffix \in SSRSuffixes } : n \in 1..(MaxLen + 3) }

SSRInit ==
    /\ NoGoroutines
    /\ arg \in SSRPayloads
    /\ ret = NotCalled

SSRCall ==
    /\ ~ret.called
    /\ ret' = [called |-> TRUE, out |-> parseSSRPayload(arg)]
    /\ UNCHANGED << arg, progVars >>

SSRSpec == SSRInit /\ [][SSRCall]_vars

(***************************************************************************)
(* parseSubscription called on its own.                                     *)
(***************************************************************************)
ParseInit ==
    /\ NoGoroutines
    /\ arg \in Contents
    /\ ret = NotCalled

ParseCall ==
    /\ ~ret.called
    /\ ret' = [called |-> TRUE, out |-> parseSubscription(arg)]
    /\ UNCHANGED << arg, progVars >>

ParseSpec == ParseInit /\ [][ParseCall]_vars

(***************************************************************************)
(* DeepMergeMap called on its own.                                          *)
(***************************************************************************)
MergeInit ==
    /\ NoGoroutines
    /\ arg \in MergeInputs
    /\ ret = NotCalled

MergeCall ==
    /\ ~ret.called
    /\ ret' = [called |-> TRUE, out |-> DeepMergeMap(arg[1], arg[2])]
    /\ UNCHANGED << arg, progVars >>

MergeSpec == MergeInit /\ [][MergeCall]_vars

(***************************************************************************)
(* DeepMergeMap called by GenerateConfig on a generated base and a decoded  *)
(* profile document.                                                        *)
(***************************************************************************)
ShareInit ==
    /\ NoGoroutines
    /\ arg \in ShareInputs
    /\ ret = NotCalled

ShareSpec == ShareInit /\ [][MergeCall]_vars

(***************************************************************************)
(* classifyProxyName called on its own.                                     *)
(***************************************************************************)
ClassifyInit ==
    /\ NoGoroutines
    /\ arg \in Names
    /\ ret = NotCalled

ClassifyCall ==
    /\ ~ret.called
    /\ ret' = [called |-> TRUE, out |-> classifyProxyName(arg)]
    /\ UNCHANGED << arg, progVars >>

ClassifySpec == ClassifyInit /\ [][ClassifyCall]_vars

(***************************************************************************)
(* The splitting of a subscription body into the lines of parseURI.         *)
(***************************************************************************)
SplitInit ==
    /\ NoGoroutines
    /\ arg \in Bodies
    /\ ret = NotCalled

SplitCall ==
    /\ ~ret.called
    /\ ret' = [called |-> TRUE, out |-> uriLines(arg)]
    /\ UNCHANGED << arg, progVars >>

SplitSpec == SplitInit /\ [][SplitCall]_vars

(***************************************************************************)
(* Configuration requests of the administrator and of one subscriber, bound *)
(* to the default profile or to p1; both profiles set the mode and give a   *)
(* node of their own.                                                       *)
(***************************************************************************)
DefaultProfileText == << "mode_global", "LF", "proxies_x", "LF" >>
BoundProfileText == << "mode_direct", "LF", "proxies_y", "LF" >>

OverlayInit ==
    /\ active = {"cfg1"} /\ sources = OneSource
    /\ Constructed
    /\ arg = << >> /\ ret = NotCalled
    /\ tokenHash = HSet(EmptyHash, "t1", "alice")
    /\ userTokenHash = HSet(EmptyHash, "alice", "t1")
    /\ \E bound \in { DefaultStashProfileName, "p1" } :
          userProfileHash = HSet(EmptyHash, "alice", bound)
    /\ sessionKeys = HSet(EmptyHash, "s1", DefaultAdmin)
    /\ adminUsername = DefaultAdmin
    /\ profileHash = HSet(HSet(EmptyHash, DefaultStashProfileName,
                               DefaultProfileText),
                          "p1", BoundProfileText)
    /\ req = NoRequest

OverlayNext ==
    \/ \E p \in CfgProcs : \E token \in RequestTokens :
          \E cookie \in RequestCookies : Arrive(p, "GET", token, cookie)
    \/ \E p \in CfgProcs : ValidateAPIToken(p)
    \/ \E p \in CfgProcs : ValidateSession(p)
    \/ \E p \in CfgProcs : CheckAdmin(p)
    \/ ServeNext

OverlaySpec == OverlayInit /\ [][OverlayNext]_vars

(***************************************************************************)
(* AddSubscriber and DeleteSubscriber command by command, for the calls of  *)
(* concurrent requests to /api/subscribers: `arg' holds the call each       *)
(* request is in.  No lock is held across the commands of a call.           *)
(***************************************************************************)
Callers == { "c1", "c2" }

\* generateRandomToken: 32 random bytes in hex
RandomTokens == { "t1", "t2" }

\* the attempts of the loop that looks for a token not in use
TokenAttempts == 5

NoCall == [op |-> "none"]

CallReturns(c) == arg' = [arg EXCEPT ![c] = NoCall]

\* part_008 lines 34-54: the profile exists, the username is not yet in the
\* user-token hash
AddSubscriberCheck(c, username, profileName) ==
    /\ arg[c] = NoCall
    /\ username # ""
    /\ normalizeProfileName(profileName) \in DOMAIN profileHash
    /\ username \notin DOMAIN userTokenHash
    /\ arg' = [arg EXCEPT ![c] =
                  [op |-> "add", stage |-> "token", username |-> username,
                   profileName |-> normalizeProfileName(profileName),
                   token |-> "", i |-> 0]]
    /\ UNCHANGED << ret, progVars >>

\* lines 57-69: a random token is generated and looked up in the token hash;
\* one in use is dropped and the loop goes on, and after five the call fails
AddSubscriberToken(c) ==
    /\ arg[c].op = "add" /\ arg[c].stage = "token"
    /\ IF arg[c].i >= TokenAttempts THEN CallReturns(c)
       ELSE \E token \in RandomTokens :
               arg' = [arg EXCEPT ![c] =
                          IF token \in DOMAIN tokenHash
                          THEN [@ EXCEPT !.i = @ + 1]
                          ELSE [@ EXCEPT !.token = token, !.stage = "exec"]]
    /\ UNCHANGED << ret, progVars >>

\* lines 71-78: the pipeline of three HSET
AddSubscriberExec(c) ==
    /\ arg[c].op = "add" /\ arg[c].stage = "exec"
    /\ Exec(<< [op |-> "HSET", hash |-> "token",
                field |-> arg[c].token, value |-> arg[c].username],
               [op |-> "HSET", hash |-> "userToken",
                field |-> arg[c].username, value |-> arg[c].token],
               [op |-> "HSET", hash |-> "userProfile",
                field |-> arg[c].username, value |-> arg[c].profileName] >>)
    /\ CallReturns(c)
    /\ UNCHANGED << ret, cacheVars, sessionKeys, adminUsername, profileHash,
                    req >>

\* lines 173-184: the token of the subscriber is read
DeleteSubscriberRead(c, username) ==
    /\ arg[c] = NoCall
    /\ username # ""
    /\ username \in DOMAIN userTokenHash
    /\ arg' = [arg EXCEPT ![c] =
                  [op |-> "delete", stage |-> "exec", username |-> username,
                   token |-> userTokenHash[username]]]
    /\ UNCHANGED << ret, progVars >>

\* lines 186-194: the pipeline of HDEL
DeleteSubscriberExec(c) ==
    /\ arg[c].op = "delete" /\ arg[c].stage = "exec"
    /\ Exec(<< [op |-> "HDEL", hash |-> "userToken",
                field |-> arg[c].username],
               [op |-> "HDEL", hash |-> "userProfile",
                field |-> arg[c].username] >>
            \o IF arg[c].token # ""
               THEN << [op |-> "HDEL", hash |-> "token",
                        field |-> arg[c].token] >>
               ELSE << >>)
    /\ CallReturns(c)
    /\ UNCHANGED << ret, cacheVars, sessionKeys, adminUsername, profileHash,
                    req >>

SubscriberInit ==
    /\ active = {} /\ sources = << >>
    /\ Constructed
    /\ tokenHash = EmptyHash
    /\ userTokenHash = EmptyHash
    /\ userProfileHash = EmptyHash
    /\ sessionKeys = EmptyHash
    /\ adminUsername = DefaultAdmin
    /\ profileHash = HSet(EmptyHash, DefaultStashProfileName,
                          defaultStashProfileYAML)
    /\ req = NoRequest
    /\ arg = [c \in Callers |-> NoCall]
    /\ ret = NotCalled

SubscriberNext ==
    \/ \E c \in Callers : \E u \in Subscribers :
          AddSubscriberCheck(c, u, "")
    \/ \E c \in Callers : AddSubscriberToken(c)
    \/ \E c \in Callers : AddSubscriberExec(c)
    \/ \E c \in Callers : \E u \in Subscribers :
          DeleteSubscriberRead(c, u)
    \/ \E c \in Callers : DeleteSubscriberExec(c)

SubscriberSpec == SubscriberInit /\ [][SubscriberNext]_vars

(***************************************************************************)
(* AdminAuthMiddleware in front of the admin pages and APIs, next to logins *)
(* and changes of the admin username, within the 24 hours a session lives.  *)
(***************************************************************************)
\* the answer for a request without an admin session: the login page for a
\* GET, 401 for the rest
Refuse == Answer(IF req.method = "GET" THEN 302 ELSE 401)

\* a request for an admin-protected route arrives; api.go lines 116-122 read
\* its cookie
AdminAuthArrive(method, cookie) ==
    /\ req.stage = "none"
    /\ req' = [NoRequest EXCEPT !.method = method, !.cookie = cookie,
                                !.stage = "mw_session"]
    /\ UNCHANGED << fnVars, cacheVars, events, authVars, profileHash >>

\* api.go lines 135-147 with ValidateSession (part_006 lines 214-229)
AdminAuthSession ==
    /\ req.stage = "mw_session"
    /\ IF req.cookie = "" THEN StoreOk /\ Refuse
       ELSE \/ StoreFault /\ Answer(401)
            \/ /\ StoreOk
               /\ LET username == IF req.cookie \in DOMAIN sessionKeys
                                  THEN sessionKeys[req.cookie] ELSE ""
                  IN IF username = "" THEN Refuse
                     ELSE req' = [req EXCEPT !.username = username,
                                             !.stage = "mw_admin"]
    /\ UNCHANGED << fnVars, cacheVars, authVars, profileHash >>

\* api.go lines 149-163 with GetAdminUsername (part_006 lines 118-133): the
\* request goes through to the handler of the route
AdminAuthCheck ==
    /\ req.stage = "mw_admin"
    /\ \/ StoreFault /\ Answer(500)
       \/ /\ StoreOk
          /\ IF isAdminUsername(req.username, adminUsername)
             THEN req' = [req EXCEPT !.isAdmin = TRUE, !.stage = "next"]
             ELSE Refuse
    /\ UNCHANGED << fnVars, cacheVars, authVars, profileHash >>

\* api.go line 164: the handler of the route answers
AdminAuthNext ==
    /\ req.stage = "next"
    /\ StoreOk
    /\ Answer(200)
    /\ UNCHANGED << fnVars, cacheVars, authVars, profileHash >>

\* UpdateAdminCredentials, with arg keeping the sessions that were created
\* under a username the admin was changed away from
AdminUpdateCredentials(newUsername) ==
    /\ UpdateAdminCredentialsStore(newUsername)
    /\ arg' = arg \cup { session \in DOMAIN sessionKeys :
                            sessionKeys[session] = adminUsername }
    /\ UNCHANGED ret

AdminInit ==
    /\ NoGoroutines
    /\ arg = {}
    /\ ret = NotCalled

AdminNext ==
    \/ \E method \in {"GET", "POST"} : \E cookie \in RequestCookies :
          AdminAuthArrive(method, cookie)
    \/ AdminAuthSession
    \/ AdminAuthCheck
    \/ AdminAuthNext
    \/ \E p \in CfgProcs : Served(p)
    \/ \E u \in AdminNames : \E t \in SessionTokens : Login(u, t)
    \/ \E u \in AdminNames : AdminUpdateCredentials(u)

AdminSpec == AdminInit /\ [][AdminNext]_vars

(***************************************************************************)
(* The proxy groups and rules of the generated document on their own, as    *)
(* the current generator and as the earlier one build them.                 *)
(***************************************************************************)
GroupsInit ==
    /\ NoGoroutines
    /\ arg \in NodeLists
    /\ ret = NotCalled

GroupsCall ==
    /\ ~ret.called
    /\ ret' = [called |-> TRUE, generator |-> "part_004",
               out |-> ProxyGroupsAndRules(arg)]
    /\ UNCHANGED << arg, progVars >>

GroupsCall_part005 ==
    /\ ~ret.called
    /\ ret' = [called |-> TRUE, generator |-> "part_005",
               out |-> ProxyGroupsAndRules_part005(arg)]
    /\ UNCHANGED << arg, progVars >>

GroupsNext == GroupsCall \/ GroupsCall_part005

GroupsSpec == GroupsInit /\ [][GroupsNext]_vars

(***************************************************************************)
(* The padding and decoding step of the uri parsers on its own              *)
(***************************************************************************)
PadInit ==
    /\ NoGoroutines
    /\ arg \in PadTexts
    /\ ret = NotCalled

PadCall ==
    /\ ~ret.called
    /\ ret' = [called |-> TRUE, out |-> decodePadded(arg)]
    /\ UNCHANGED << arg, progVars >>

PadSpec == PadInit /\ [][PadCall]_vars

(***************************************************************************)
(* Properties                                                               *)
(***************************************************************************)
\* the goroutine is inside RefreshProxyCache between Lock and Unlock
InBatch(p) == pc[p] = "workers"

\* some per-url task of the goroutine's batch has not finished
Running(p) == \E i \in DOMAIN workers[p] : workers[p][i].pc # "done"

\* C1: at most one execution of RefreshProxyCache is between acquiring and
\* releasing the refresh lock, it is the owner of the mutex, and only the
\* owner's batch has per-url tasks that fetch or write.
C1_OneBatchAtATime ==
    /\ Cardinality({ p \in Procs : InBatch(p) }) <= 1
    /\ \A p \in Procs : InBatch(p) => proxyCacheRefreshMu = p
    /\ \A p \in Procs : Running(p) => proxyCacheRefreshMu = p

\* a batch is writing an entry while another RefreshProxyCache call waits
\* for the lock
C1_Witness ==
    \E p, q \in Procs :
        /\ p # q
        /\ InBatch(p)
        /\ \E i \in DOMAIN workers[p] : workers[p][i].pc = "hset_updated"
        /\ pc[q] = "lock"

\* C2 as stated: whenever LastRunAt equals the refreshedAt of a batch,
\* every per-url task of that batch has finished.
C2_AsStated ==
    \A p \in Procs :
        (batchNo[p] # 0 /\ lastRunKey = refreshedAt[p]) => ~Running(p)

\* C2: the batch that wrote the current LastRunAt has no unfinished per-url
\* task: the write happens only after every task of the writing batch has
\* finished.
C2_WriterFinished ==
    \A p \in Procs :
        (batchNo[p] # 0 /\ batchNo[p] = lastRunBatch) => ~Running(p)

\* a batch of two urls has written LastRunAt
C2_Witness ==
    \E p \in Procs :
        /\ batchNo[p] # 0 /\ batchNo[p] = lastRunBatch
        /\ lastRunKey = refreshedAt[p]
        /\ result[p].Total >= 2
        /\ Len(result[p].Items) = result[p].Total

\* the goroutine's RefreshProxyCache call returns in this step
Finishes(p) == pc[p] = "workers" /\ pc'[p] # "workers"

\* the cache entry of a url in the two hashes given: its encoded nodes and
\* its updatedAt, each absent or present
EntryOf(data, updated, url) ==
    [nodes |-> IF url \in DOMAIN data THEN << data[url] >> ELSE << >>,
     updatedAt |-> IF url \in DOMAIN updated THEN << updated[url] >> ELSE << >>]

\* the goroutine holds the result of a batch it ran
HasBatchResult(p) == batchNo[p] # 0 /\ result[p].RefreshedAt # 0

\* C3: when a batch returns, the cache entry (nodes and updatedAt) of every
\* url whose fetch failed is what it was when the batch began, and the
\* url's result item carries a non-empty error.
C3_FailedFetchKeepsEntry ==
    [][\A p \in Procs : Finishes(p) =>
         \A i \in DOMAIN workers[p] :
            (workers[p][i].pc = "done" /\ ~workers[p][i].fetched) =>
               LET url == normalizeCacheURL(normalizedURLs[p][i]) IN
               /\ EntryOf(cacheData', cacheUpdated', url)
                     = EntryOf(snapData[p], snapUpdated[p], url)
               /\ result'[p].Items[i].URL = normalizedURLs[p][i]
               /\ result'[p].Items[i].Error # ""]_vars

\* a batch has returned in which the fetch of a url failed that had an entry
\* before, and the entry is still the same
C3_Witness ==
    \E p \in Procs :
        /\ HasBatchResult(p)
        /\ \E i \in DOMAIN result[p].Items :
              LET url == normalizeCacheURL(result[p].Items[i].URL) IN
              /\ result[p].Items[i].Error \in FetchErrors
              /\ url \in DOMAIN snapData[p]
              /\ url \in DOMAIN snapUpdated[p]
              /\ EntryOf(cacheData, cacheUpdated, url)
                    = EntryOf(snapData[p], snapUpdated[p], url)

\* the positions of the items of a result that carry an error
WithError(items) == { i \in DOMAIN items : items[i].Error # "" }

\* C5: the result of every batch has exactly one item per normalized url,
\* in url order; total is the number of normalized urls, success the number
\* of items without error, failed the number of items with error, and
\* success + failed = total; a batch of 3 urls with exactly one failed
\* fetch yields total 3, success 2, failed 1.
C5_ResultCounts ==
    \A p \in Procs : HasBatchResult(p) =>
        LET r == result[p] IN
        /\ Len(r.Items) = Len(normalizedURLs[p])
        /\ \A i \in DOMAIN r.Items : r.Items[i].URL = normalizedURLs[p][i]
        /\ r.Total = Len(normalizedURLs[p])
        /\ r.Failed = Cardinality(WithError(r.Items))
        /\ r.Success = Cardinality(DOMAIN r.Items \ WithError(r.Items))
        /\ r.Success + r.Failed = r.Total
        /\ (Len(normalizedURLs[p]) = 3 /\ Cardinality(WithError(r.Items)) = 1)
              => (r.Total = 3 /\ r.Success = 2 /\ r.Failed = 1)

\* a batch of three urls has returned with exactly one failed fetch
C5_Witness ==
    \E p \in Procs :
        /\ HasBatchResult(p)
        /\ Len(normalizedURLs[p]) = 3
        /\ Cardinality(WithError(result[p].Items)) = 1
        /\ \E i \in DOMAIN result[p].Items :
              result[p].Items[i].Error \in FetchErrors
        /\ result[p].Total = 3
        /\ result[p].Success = 2
        /\ result[p].Failed = 1

\* the entry SaveProxyCache leaves for the url of worker i of the batch
NewEntry(p, i) ==
    [nodes |-> << jsonMarshal(workers[p][i].proxies) >>,
     updatedAt |-> << refreshedAt[p] >>]

C4_NoFetchOfCachedURL ==
    \A p \in CfgProcs : \A i \in DOMAIN workers[p] :
        workers[p][i].pc = "fetch" =>
            normalizeCacheURL(normalizedURLs[p][i]) \notin DOMAIN cacheData

\* C7 as stated: what a GetProxyCache call that read both hashes returns
\* for a url is the (nodes, updatedAt) pair of one SaveProxyCache call for
\* that url.
C7_ReadsWholeEntry ==
    \A p \in StatusProcs :
        got[p].found =>
            << got[p].url, got[p].raw, got[p].updatedAt >> \in saved

\* the goroutine whose batch writes LastRunAt in this step
Writer(p) == Finishes(p) /\ lastRunBatch' = batchNo[p]

\* C8 as stated: LastRunAt is changed only by a batch that covers every
\* configured source url, as its caller read them from the store; the batch
\* of the missing urls of BuildProxiesFromCache, when some url is cached,
\* leaves it unchanged.
C8_OnlyFullRefresh ==
    [][lastRunKey' # lastRunKey =>
         \A p \in Procs : Writer(p) =>
            Range(normalizeSubscribeURLs(urls[p]))
               \subseteq Range(normalizedURLs[p])]_vars

\* C9: every write of LastRunAt is made by a batch that acquired the lock
\* after the batch of the previous write, and writes a value that is not
\* smaller than the previous one.
C9_OrderedLastRun ==
    [][lastRunBatch' # lastRunBatch =>
         /\ lastRunBatch' > lastRunBatch
         /\ lastRunKey' >= lastRunKey]_vars

\* a second batch has written LastRunAt, with a later time than the first
C9_Witness ==
    /\ lastRunBatch >= 2
    /\ lastRunKey > 1
    /\ \E p \in Procs : batchNo[p] = lastRunBatch /\ lastRunKey = refreshedAt[p]

\* C10: the scheduler's decision is false when the normalized list of
\* sources is empty, otherwise true when LastRunAt is 0, otherwise true
\* exactly when now - LastRunAt is at least 24 hours; and the scheduler is
\* inside a refresh only after a decision that was true.
C10_SchedulerDecision ==
    LET decision ==
            IF Len(normalizeSubscribeURLs(sched.urls)) = 0 THEN FALSE
            ELSE IF sched.lastRunAt = 0 THEN TRUE
            ELSE sched.now - sched.lastRunAt >= 24
    IN  \A p \in SchedProcs :
            /\ pc[p] = "decided" => sched.ok = decision
            /\ pc[p] \in {"lock", "workers", "log"} => (sched.ok /\ decision)

\* the scheduler has decided to refresh exactly 24 hours after the last run
C10_Witness ==
    \E p \in SchedProcs :
        /\ pc[p] = "decided"
        /\ sched.ok
        /\ sched.lastRunAt > 0
        /\ sched.now - sched.lastRunAt = 24

\* sources are configured and LastRunAt is 0 or at least 24 hours old
RefreshDue ==
    /\ Len(normalizeSubscribeURLs(sources)) > 0
    /\ (lastRunKey = 0 \/ clock - lastRunKey >= 24)

\* the scheduler is at its check at process start, or a tick is there for it
CheckPending(p) ==
    \/ pc[p] = "start"
    \/ pc[p] = "wait" /\ clock >= sched.tickerNext

\* the scheduler has called RefreshProxyCache on the urls it read
RefreshStarted(p) == pc[p] = "lock"

\* C11: with store reads that succeed, whenever the scheduler is at its check
\* at process start or has a tick to receive and a refresh is due, it starts
\* a full refresh (unless the refresh stops being due first); and while the
\* scheduler waits, its next tick is at most one tick interval away, an
\* interval shorter than the refresh interval.
C11_DueRefreshStarts ==
    /\ [](\A p \in SchedProcs :
            pc[p] = "wait" =>
               /\ sched.tickerNext <= clock + proxyCacheSchedulerTick
               /\ proxyCacheSchedulerTick < proxyCacheRefreshInterval)
    /\ \A p \in SchedProcs :
          (CheckPending(p) /\ RefreshDue) ~> (RefreshStarted(p) \/ ~RefreshDue)

\* a tick found the last run 24 hours old and the scheduler started a refresh
C11_Witness ==
    \E p \in SchedProcs :
        /\ RefreshStarted(p)
        /\ sched.source = "daily"
        /\ sched.lastRunAt > 0
        /\ sched.now - sched.lastRunAt >= 24

\* every fetch of the goroutine's batch failed
AllFetchesFailed(p) ==
    \A i \in DOMAIN workers[p] :
        workers[p][i].pc = "done" /\ ~workers[p][i].fetched

\* C12: when a batch returns in which every fetch failed, both hashes of the
\* cache are what they were when the batch began, and what
\* BuildProxiesFromCache collects from the cache for the urls of the batch is
\* the node sequence it collected before the batch.
C12_FailedBatchServesStale ==
    [][\A p \in Procs : (Finishes(p) /\ AllFetchesFailed(p)) =>
         /\ cacheData' = snapData[p]
         /\ cacheUpdated' = snapUpdated[p]
         /\ collectAll(cacheData', normalizedURLs[p])
               = collectAll(snapData[p], normalizedURLs[p])]_vars

\* a batch over urls with cached nodes has returned with every fetch failed,
\* and the cache still holds the nodes
C12_Witness ==
    \E p \in Procs :
        /\ HasBatchResult(p)
        /\ result[p].Total >= 1
        /\ result[p].Failed = result[p].Total
        /\ \A i \in DOMAIN result[p].Items :
              result[p].Items[i].Error \in FetchErrors
        /\ cacheData = snapData[p]
        /\ cacheUpdated = snapUpdated[p]
        /\ collectAll(cacheData, normalizedURLs[p]) # <<>>

\* the goroutine is at a read of the cache inside BuildProxiesFromCache or
\* GetProxyCacheStatus
AtCacheRead(p) ==
    pc[p] \in {"scan1", "collect1", "status1", "status2", "last_run"}

FetchedNothing(p, i) ==
    workers[p][i].fetched /\ workers[p][i].proxies = << >>

\* after this step the url of worker i of the batch is a success with an
\* entry of no nodes: its item has no error and count 0, its entry holds an
\* empty node list and the batch time, and a read finds it
EmptySuccess(p, i) ==
    LET url == normalizeCacheURL(normalizedURLs[p][i]) IN
    /\ result'[p].Items[i].URL = normalizedURLs[p][i]
    /\ result'[p].Items[i].Error = ""
    /\ result'[p].Items[i].Count = 0
    /\ url \in DOMAIN cacheData'
    /\ jsonUnmarshal(cacheData'[url]) = << >>
    /\ EntryOf(cacheData', cacheUpdated', url)
          = [nodes |-> << jsonMarshal(<< >>) >>,
             updatedAt |-> << refreshedAt[p] >>]

Reported(p) == { ch[p][j] : j \in DOMAIN ch[p] }

\* C15: the result a batch returns lists one item per normalized url, in the
\* order of the normalized url list, each the item its worker reported,
\* whatever the order in which the workers completed.
C15_ItemsInURLOrder ==
    [][\A p \in Procs : Finishes(p) =>
         /\ Len(result'[p].Items) = Len(normalizedURLs[p])
         /\ \A i \in DOMAIN normalizedURLs[p] :
               /\ result'[p].Items[i].URL = normalizedURLs[p][i]
               /\ result'[p].Items[i] \in Reported(p)]_vars

\* every worker of a batch has reported, the last url's worker first, and
\* the batch is about to build its result
C15_Witness ==
    \E p \in Procs :
        /\ pc[p] = "workers"
        /\ wgWait(p)
        /\ Len(normalizedURLs[p]) >= 2
        /\ Len(ch[p]) = Len(normalizedURLs[p])
        /\ ch[p][1].URL = normalizedURLs[p][Len(normalizedURLs[p])]

\* the positions of a list whose trimmed string is not blank and occurs at
\* no earlier position
FirstOccurrences(list) ==
    { i \in DOMAIN list :
        /\ TrimSpace(list[i]) # << >>
        /\ \A j \in 1..(i - 1) : TrimSpace(list[j]) # TrimSpace(list[i]) }

\* out is the trimmed strings of the first occurrences of list, in the order
\* of their positions
IsNormalized(list, out) ==
    LET keep == FirstOccurrences(list) IN
    /\ Len(out) = Cardinality(keep)
    /\ \A i \in keep :
          out[Cardinality({ j \in keep : j <= i })] = TrimSpace(list[i])

\* C16: normalizeSubscribeURLs returns the trimmed non-blank strings of its
\* input without duplicates, compared after trimming and case-sensitively,
\* in the order of their first occurrence; called on what it returned, it
\* returns the same list.
C16_Normalization ==
    [][/\ ret'.called => IsNormalized(arg', ret'.out)
       /\ (ret.called /\ ret'.called) => ret'.out = ret.out]_vars

\* normalization has dropped a blank string and a padded duplicate, kept two
\* strings that differ in case only, and has been called again on its output
C16_Witness ==
    /\ ret.called
    /\ ret.again
    /\ \E i, j \in DOMAIN arg :
          i < j /\ arg[i] # arg[j] /\ TrimSpace(arg[i]) = TrimSpace(arg[j])
    /\ \E i \in DOMAIN arg : arg[i] # << >> /\ TrimSpace(arg[i]) = << >>
    /\ ret.out = << urlA, << "A" >> >>

\* the goroutine's GetProxyCache call of its collecting loop returns without
\* error in this step
CollectRead(p) ==
    /\ pc[p] = "collect1"
    /\ idx'[p] # idx[p] \/ pc'[p] = "done"
    /\ events' = events

\* the nodes of the entry of url u, none when u has no entry
NodesOf(u) ==
    IF u \in DOMAIN cacheData THEN jsonUnmarshal(cacheData[u]) ELSE << >>

\* C17: every read of BuildProxiesFromCache's collecting loop appends the
\* nodes of the url's entry as the store holds it, nothing for a url without
\* entry, and goes on; the call returns without error whatever the
\* cache-miss refresh returned; and when no other goroutine runs, it returns
\* the nodes of the urls that have an entry, concatenated in the order of the
\* normalized urls.
C17_ConcatenatesInURLOrder ==
    [][\A p \in CfgProcs :
         /\ CollectRead(p) =>
               /\ all'[p] = all[p] \o NodesOf(LoopURL(p))
               /\ pc'[p] = (IF LastURL(p) THEN "done" ELSE "collect1")
               /\ pc'[p] = "done" => result'[p].err = ""
         /\ (CollectRead(p) /\ pc'[p] = "done" /\ active = {p}) =>
               all'[p] = collectAll(cacheData, LoopList(p))]_vars

\* a configuration request, the only goroutine, has returned without error
\* the nodes of the first and of the third url in that order; the second url
\* has no entry, and the cache-miss refresh had returned an error, its write
\* of the last-run time having failed
C17_Witness ==
    \E p \in CfgProcs :
        /\ active = {p}
        /\ pc[p] = "done"
        /\ result[p].err = ""
        /\ LoopList(p) = ThreeSources
        /\ urlB \notin DOMAIN cacheData
        /\ lastRunKey = 0
        /\ all[p] = jsonUnmarshal(jsonMarshal(Feed(urlA)))
                        \o jsonUnmarshal(jsonMarshal(Feed(urlC)))

\* the SaveProxyCache calls for url u that the store has begun to apply
SavesOf(u) == { w \in saved : w[1] = u }

\* C18 as stated: in every state, a url that has a value in either hash has
\* an entry in both, written by a refresh batch that fetched the url; the
\* entry's nodes and time are those of one SaveProxyCache call for the url,
\* and no call for the url carries a later time.
C18_EntryIsLatestFetch ==
    \A u \in DOMAIN cacheData \cup DOMAIN cacheUpdated :
        /\ u \in DOMAIN cacheData
        /\ u \in DOMAIN cacheUpdated
        /\ << u, cacheData[u], cacheUpdated[u] >> \in SavesOf(u)
        /\ \A w \in SavesOf(u) : w[3] <= cacheUpdated[u]

\* the node has a non-empty type, a non-empty server and a numeric port
WellFormed(node) ==
    /\ "type" \in DOMAIN node
    /\ node.type # ""
    /\ "server" \in DOMAIN node
    /\ node.server # << >>
    /\ "port" \in DOMAIN node
    /\ node.port[1] \in {"int", "float64"}

\* C19 as stated: every node parseSubscription returns has a non-empty
\* type, a non-empty server and a numeric port.
C19_NodesWellFormed ==
    ret.called => \A i \in DOMAIN ret.out : WellFormed(ret.out[i])

\* the keys and values of a map argument, none for a nil map
KeysOf(m) == IF m = NilMap THEN NoKeys ELSE m[2]

\* the map r is the merge of the key-value functions b and o: its keys are
\* those of both; a key of one of them has that one's value; a key of both
\* has the merge of the two maps, or the sequence of o's items followed by
\* b's items, or else o's value
RECURSIVE IsMerge(_, _, _)
IsMerge(b, o, r) ==
    /\ r[1] = "map"
    /\ DOMAIN r[2] = DOMAIN b \cup DOMAIN o
    /\ \A k \in DOMAIN b \ DOMAIN o : r[2][k] = b[k]
    /\ \A k \in DOMAIN o \ DOMAIN b : r[2][k] = o[k]
    /\ \A k \in DOMAIN b \cap DOMAIN o :
          IF b[k][1] = "map" /\ o[k][1] = "map"
          THEN IsMerge(b[k][2], o[k][2], r[2][k])
          ELSE IF b[k][1] = "seq" /\ o[k][1] = "seq"
          THEN r[2][k] = << "seq", o[k][2] \o b[k][2] >>
          ELSE r[2][k] = o[k]

\* C20: DeepMergeMap(base, overlay) has the keys of both maps; a key of base
\* only keeps base's value, a key of overlay only has overlay's value, and
\* for a key of both, two maps are merged by the same rule, two sequences
\* give overlay's items followed by base's items, all of them, and in every
\* other case overlay's value replaces base's.
C20_DeepMerge ==
    ret.called => IsMerge(KeysOf(arg[1]), KeysOf(arg[2]), ret.out)

\* merging {a:[1,2], b:{x:1}} with {a:[3], b:{y:2}, c:5} has returned
\* {a:[3,1,2], b:{x:1,y:2}, c:5}
C20_Witness ==
    /\ ret.called
    /\ arg = << ExampleBase, ExampleOverlay >>
    /\ ret.out =
          Map([a |-> Slice(<< Scalar(3), Scalar(1), Scalar(2) >>),
               b |-> Map([x |-> Scalar(1), y |-> Scalar(2)]),
               c |-> Scalar(5)])

\* the overlay is absent or has no keys
EmptyOverlay(m) == m = NilMap \/ m = Map(NoKeys)

\* C21: DeepMergeMap of a base with an overlay that is absent or has no keys
\* returns a map equal to the base (the empty map for an absent base).
C21_EmptyOverlayIsIdentity ==
    (ret.called /\ EmptyOverlay(arg[2])) => ret.out = Map(KeysOf(arg[1]))

\* a base holding a sequence and a nested map has been merged with an
\* overlay without keys and has come back equal
C21_Witness ==
    /\ ret.called
    /\ arg[2] = Map(NoKeys)
    /\ arg[1] # NilMap
    /\ DOMAIN arg[1][2] = {"a", "b"}
    /\ arg[1][2]["a"][1] = "seq"
    /\ Len(arg[1][2]["a"][2]) > 1
    /\ arg[1][2]["b"][1] = "map"
    /\ DOMAIN arg[1][2]["b"][2] # {}
    /\ ret.out = arg[1]

\* the addresses of the maps and sequences a value holds, itself included
RECURSIVE Addresses(_)
Addresses(value) ==
    (IF Len(value) = 3 THEN { value[3] } ELSE {})
    \cup (CASE value[1] \in {"map", "node"} ->
                UNION { Addresses(value[2][k]) : k \in DOMAIN value[2] }
            [] value[1] \in {"seq", "nodes", "maps"} ->
                UNION { Addresses(value[2][i]) : i \in DOMAIN value[2] }
            [] OTHER -> {})

\* C22 as stated: the structure DeepMergeMap returns holds no map or sequence
\* of either input.
C22_SharesNothing ==
    ret.called =>
        Addresses(ret.out) \cap (Addresses(arg[1]) \cup Addresses(arg[2])) = {}

\* the maximal runs of letters and digits of a name
Tokens(name) ==
    { SubSeq(name, q[1], q[2]) :
        q \in { q \in (DOMAIN name) \X (DOMAIN name) :
                  /\ q[1] <= q[2]
                  /\ \A k \in q[1]..q[2] : IsAlnum(name[k])
                  /\ q[1] = 1 \/ ~IsAlnum(name[q[1] - 1])
                  /\ q[2] = Len(name) \/ ~IsAlnum(name[q[2] + 1]) } }

\* a code of region r is, but for case, a token of the name
HasCodeToken(name, r) ==
    \E t \in Tokens(name) : \E code \in RegionCodes[r] :
        ToLower(t) = ToLower(code)

USdash01 == << "U", "S", "-", "0", "1" >>
BONUSdash1 == << "B", "O", "N", "U", "S", "-", "1" >>

Undecodable(body) ==
    /\ DecodeString(TrimSpace(body)).err
    /\ DecodeString(padTo4(TrimSpace(body))).err

\* the lines of the trimmed text, trimmed, the empty ones left out
OriginalLines(body) ==
    SelectSeq([i \in DOMAIN SplitLines(TrimSpace(body)) |->
                  TrimSpace(SplitLines(TrimSpace(body))[i])],
              LAMBDA line : line # << >>)

\* C24 as stated: for a body that decodes neither as it is nor padded, the
\* lines given to parseURI are the lines of the trimmed body.
C24_OriginalLines ==
    (ret.called /\ Undecodable(arg)) => ret.out = OriginalLines(arg)

(***************************************************************************)
(* C26                                                                      *)
(***************************************************************************)
\* the step is one of worker i of p's batch, taken from the fetch position:
\* the call of fetchSingleURL
FetchStep(p, i) ==
    /\ pc[p] = "workers" /\ pc'[p] = "workers"
    /\ workers[p][i].pc = "fetch"
    /\ << workers[p], ch[p] >>' # << workers[p], ch[p] >>
    /\ \A j \in DOMAIN workers[p] \ {i} : workers'[p][j] = workers[p][j]

\* worker i of p is put at the fetch position by the step
StartsFetch(p, i) ==
    /\ i \in DOMAIN workers'[p]
    /\ workers'[p][i].pc = "fetch"
    /\ (i \notin DOMAIN workers[p] \/ workers[p][i].pc # "fetch")

\* the urls of a running batch are pairwise different: one worker per url
OneWorkerPerURL(p) ==
    \A i, j \in DOMAIN normalizedURLs[p] :
        normalizedURLs[p][i] = normalizedURLs[p][j] => i = j

\* C26: within one refresh batch each normalized url is fetched exactly
\* once. The batch has one worker per url and the urls are pairwise
\* different; a worker's fetch, failed or not, takes it away from the fetch
\* position for the rest of the batch; the batch ends only when every worker
\* has fetched; and a worker is put at the fetch position only by the start
\* of a new batch, that is by a later scheduled, manual or cache-miss call
\* of RefreshProxyCache.
C26_FetchedOncePerBatch ==
    [][\A p \in Procs :
         /\ pc'[p] = "workers" =>
              /\ OneWorkerPerURL(p)'
              /\ DOMAIN workers'[p] = DOMAIN normalizedURLs'[p]
         /\ \A i \in DOMAIN workers[p] :
              /\ FetchStep(p, i) => workers'[p][i].pc # "fetch"
              /\ (pc[p] = "workers" /\ pc'[p] # "workers")
                     => workers[p][i].pc # "fetch"
         /\ \A i \in DOMAIN workers'[p] :
              StartsFetch(p, i) =>
                  /\ pc[p] = "lock" /\ pc'[p] = "workers"
                  /\ batchNo'[p] = batchSeq + 1]_vars

\* a batch in which one fetch failed and was reported while the other
\* worker of the batch has fetched too
C26_Witness ==
    \E p \in Procs :
        /\ pc[p] = "workers"
        /\ Len(normalizedURLs[p]) >= 2
        /\ \E k \in DOMAIN ch[p] : ch[p][k].Error \in FetchErrors
        /\ \A i \in DOMAIN workers[p] : workers[p][i].pc # "fetch"

(***************************************************************************)
(* C27                                                                      *)
(***************************************************************************)
\* p is in its call of RefreshProxyCache: waiting for the mutex or owning it
AtRefresh(p) ==
    pc[p] \in {"lock", "workers"} \/ proxyCacheRefreshMu = p

\* p's scan of its urls ends with the step and found an entry for each
ScanFoundAll(p) ==
    /\ pc[p] = "scan1" /\ pc'[p] # "scan1"
    /\ result'[p].err = ""
    /\ missing'[p] = <<>>

\* C27: BuildProxiesFromCache calls RefreshProxyCache, and so waits for or
\* holds the refresh mutex, only with a non-empty list of missing urls, and
\* a url is put on that list only when the read of the data hash found no
\* entry for it. A scan that found an entry for every url goes on to collect
\* the nodes whoever holds the mutex, without touching it.
C27_AllCachedNeedsNoLock ==
    [][\A p \in CfgProcs :
         /\ AtRefresh(p)' => missing'[p] # <<>>
         /\ (missing'[p] # missing[p] /\ missing'[p] # <<>>) =>
               /\ missing'[p] = Append(missing[p], LoopURL(p))
               /\ LoopURL(p) \notin DOMAIN cacheData
         /\ ScanFoundAll(p) =>
               /\ pc'[p] = "collect1"
               /\ proxyCacheRefreshMu' = proxyCacheRefreshMu]_vars

\* BuildProxiesFromCache has returned the cached nodes of all its urls while
\* a refresh batch of another goroutine holds the mutex
C27_Witness ==
    \E p \in CfgProcs :
        /\ pc[p] = "done" /\ result[p].err = ""
        /\ missing[p] = <<>> /\ all[p] # <<>>
        /\ proxyCacheRefreshMu \in Procs \ {p}
        /\ batchNo[p] = 0

(***************************************************************************)
(* C28                                                                      *)
(***************************************************************************)
\* k padding characters
Padding(k) == [i \in 1..k |-> "="]

\* C28: a decoder step that pads its input to a multiple of 4 before
\* decoding gives, for an input that lacks 0, 1, 2 or 3 padding characters,
\* what the decoder gives for the input with these characters in place.
C28_MissingPaddingIsRestored ==
    ret.called =>
        \A k \in 0..3 :
            (Len(arg) + k) % 4 = 0 =>
                ret.out = DecodeString(arg \o Padding(k))

\* "YQ", which lacks both padding characters of "YQ==", decodes to "a"
C28_Witness ==
    /\ ret.called
    /\ arg = << "Y", "Q" >>
    /\ ret.out = [err |-> FALSE, decoded |-> << "a" >>]

(***************************************************************************)
(* C30                                                                      *)
(***************************************************************************)
\* the workers of p's batch that have not sent their item yet
Unsent(p) == { i \in DOMAIN workers[p] : workers[p][i].pc # "done" }

\* p is not in RefreshProxyCache and does not own the mutex
OutOfRefresh(p) ==
    pc[p] \notin {"lock", "workers"} /\ proxyCacheRefreshMu # p

\* C30: every RefreshProxyCache call terminates and has released the mutex
\* when it returns. The mutex is owned only by a goroutine whose batch runs;
\* the channel, of capacity len(normalizedURLs), has room for the item of
\* every worker that has not sent yet; a goroutine waiting in Lock gets the
\* mutex; and a goroutine in RefreshProxyCache leaves it, whether its input
\* normalized to nothing, its fetches failed or the write of the last-run
\* time failed.
C30_RefreshTerminates ==
    /\ [](\A p \in Procs :
            /\ proxyCacheRefreshMu = p => pc[p] = "workers"
            /\ pc[p] = "workers" =>
                 Len(ch[p]) + Cardinality(Unsent(p)) <= Len(normalizedURLs[p]))
    /\ \A p \in ManualProcs \cup CfgProcs :
          /\ (pc[p] = "lock") ~> (pc[p] # "lock" /\ batchNo[p] # 0)
          /\ (pc[p] \in {"lock", "workers"}) ~> OutOfRefresh(p)

\* a call has returned with an error after all its fetches failed and the
\* write of the last-run time failed too, and the mutex is free
C30_Witness ==
    \E p \in ManualProcs :
        /\ pc[p] = "done" /\ batchNo[p] # 0
        /\ result[p].err = RedisError
        /\ result[p].Total > 0 /\ result[p].Failed = result[p].Total
        /\ proxyCacheRefreshMu = NoProc

(***************************************************************************)
(* C25                                                                      *)
(***************************************************************************)
\* the request carries a token that the token hash maps to a subscriber
TokenMapped ==
    /\ req.token # "" /\ req.token \in DOMAIN tokenHash
    /\ tokenHash[req.token] # ""

\* the request carries a session that maps to the admin username
AdminSession ==
    /\ req.cookie # "" /\ req.cookie \in DOMAIN sessionKeys
    /\ adminUsername # "" /\ sessionKeys[req.cookie] = adminUsername

\* the handler has not resolved the requester yet
Resolving == req.stage \in {"none", "token", "session", "admin"}

\* the statement as it stands: a request that is being served, or was served
\* a document, carries a mapped token or an admin session, and every other
\* request that was answered got 401
C25_AsStated ==
    \A p \in CfgProcs :
        /\ (pc[p] # "idle" \/ req.status = 200) =>
               (TokenMapped \/ AdminSession)
        /\ (req.stage = "answered" /\ ~(TokenMapped \/ AdminSession)) =>
               req.status = 401

\* C25: the handler resolves the requester before it reads anything else.
\* A request is granted only on the read that found its token mapped to a
\* subscriber, or on the read of the admin username that equals the name
\* its session was found to map to; only a granted request makes the handler
\* read the stored urls and the cache, start a fetch or write a document.
\* Every request that is answered before being granted leaves the cache and
\* the batches alone and gets 401, or 405 when its method is neither GET nor
\* HEAD, or 500 when a read of the store failed; it gets 401 only when it
\* has no session cookie, when its session is not stored, or when the name
\* of its session is not the admin username.
C25_OnlyResolvedRequesters ==
    [][\A p \in CfgProcs :
         /\ (req.stage # "granted" /\ req'.stage = "granted") =>
               \/ /\ req.stage = "token" /\ TokenMapped
                  /\ req'.username = tokenHash[req.token] /\ ~req'.isAdmin
               \/ /\ req.stage = "admin" /\ req'.isAdmin
                  /\ req.username # "" /\ req.username = adminUsername
         /\ (req.stage = "session" /\ req'.stage = "admin") =>
               /\ req.cookie \in DOMAIN sessionKeys
               /\ req'.username = sessionKeys[req.cookie]
         /\ (pc[p] = "idle" /\ pc'[p] # "idle") => req.stage = "granted"
         /\ req'.status = 200 => ~Resolving
         /\ (Resolving /\ req'.stage = "answered") =>
               /\ UNCHANGED cacheVars
               /\ req'.status \in {401, 405, 500}
               /\ req'.status = 405 <=> req'.method \notin {"GET", "HEAD"}
               /\ req'.status = 401 =>
                     \/ req.stage = "session"
                        /\ (req.cookie = ""
                            \/ req.cookie \notin DOMAIN sessionKeys)
                     \/ req.stage = "admin"
                        /\ req.username # adminUsername]_vars

\* a document was served to the subscriber of a token, with the profile of
\* the subscriber merged in
C25_Witness ==
    /\ req.stage = "answered" /\ req.status = 200
    /\ req.username = "alice" /\ ~req.isAdmin
    /\ req.selected = "p1" /\ Len(req.overlays) = 2
    /\ req.body # NoSourcesWarning

(***************************************************************************)
(* C29                                                                      *)
(***************************************************************************)
\* every stored profile decodes as a mapping
StoredProfilesParse ==
    \A name \in DOMAIN profileHash : ~yamlUnmarshal(profileHash[name]).err

\* the maps that are the whole of a document that decodes as a mapping
WholeOverlays ==
    { IF yamlUnmarshal(normalizeProfileContent(c)).parsed = NilMap
      THEN Map(NoKeys)
      ELSE yamlUnmarshal(normalizeProfileContent(c)).parsed :
         c \in { d \in ProfileTexts \cup {StoredProfile} : Decodes(d) } }

\* the step is a call of the profile API that returned
ProfileCall == ret'.called /\ events' = events + 1 /\ req' = req /\ pc' = pc

\* C29: a document that does not decode as a YAML mapping fails only the
\* call that supplies it. CreateStashProfile and UpdateStashProfile return
\* the parse error for it and leave the profile hash as it was; the hash
\* changes only by a call that returned no error for a document that
\* decodes, or by the creation of the default profile; so every stored
\* profile decodes. The overlays a configuration request has loaded are each
\* the whole of a document that decodes, and the document it writes is the
\* generated one with exactly these overlays merged in their order.
C29_InvalidOverlayChangesNothing ==
    /\ [](/\ StoredProfilesParse
          /\ \A i \in DOMAIN req.overlays : req.overlays[i] \in WholeOverlays
          /\ \A p \in CfgProcs :
               (req.status = 200 /\ pc[p] = "done"
                   /\ req.body # NoSourcesWarning) =>
                  req.body = GenerateConfig(all[p], req.overlays))
    /\ [][/\ (ProfileCall /\ ~ret'.out.valid) =>
               /\ ret'.out.err = "invalid yaml"
               /\ profileHash' = profileHash
          /\ profileHash' # profileHash =>
               \/ /\ ret'.called /\ ret'.out.valid /\ ret'.out.err = ""
                  /\ events' = events + 1
               \/ /\ DefaultStashProfileName \notin DOMAIN profileHash
                  /\ profileHash' = HSet(profileHash, DefaultStashProfileName,
                                         defaultStashProfileYAML)]_vars

\* an update with a document that does not decode was refused, and the
\* request that follows is served the base merged with the default profile
\* and with the profile of the subscriber as both were stored before
C29_Witness ==
    /\ ret.called /\ ret.out.op = "update" /\ ~ret.out.valid
    /\ ret.out.err = "invalid yaml"
    /\ req.stage = "answered" /\ req.status = 200
    /\ Len(req.overlays) = 2
    /\ req.body[2]["mode"] = Scalar(2)

(***************************************************************************)
(* C31                                                                      *)
(***************************************************************************)
\* the scheduler's RefreshProxyCache call gets the mutex in this step
SchedAcquires(p) == pc[p] = "lock" /\ pc'[p] # "lock"

\* C31 as stated: the scheduler's refresh acquires the refresh lock only in
\* a state where sources are configured and LastRunAt is 0 or at least 24
\* hours old, also when another batch wrote LastRunAt after the scheduler's
\* check.
C31_ScheduledBatchIsDue ==
    [][\A p \in SchedProcs : SchedAcquires(p) => RefreshDue]_vars

(***************************************************************************)
(* C32                                                                      *)
(***************************************************************************)
\* RefreshProxyCache gets the mutex in this step with a url list that
\* normalizes to nothing
EmptyBatch(p) ==
    /\ pc[p] = "lock"
    /\ pc'[p] # "lock"
    /\ normalizeSubscribeURLs(RefreshArg(p)) = <<>>

\* C32: a refresh call whose url list normalizes to empty returns at once
\* with total 0, no items and no error, and leaves LastRunAt and both cache
\* hashes as they were.
C32_EmptyBatchChangesNothing ==
    [][\A p \in Procs : EmptyBatch(p) =>
          /\ pc'[p] = AfterRefresh(p)
          /\ result'[p].Total = 0
          /\ result'[p].Success = 0
          /\ result'[p].Failed = 0
          /\ result'[p].Items = <<>>
          /\ result'[p].err = ""
          /\ proxyCacheRefreshMu' = NoProc
          /\ UNCHANGED << lastRunKey, cacheData, cacheUpdated >>]_vars

\* a manual refresh of an emptied url list has returned while the cache
\* holds entries and LastRunAt is set
C32_Witness ==
    \E p \in ManualProcs :
        /\ pc[p] = "done"
        /\ batchNo[p] > 0
        /\ normalizedURLs[p] = <<>>
        /\ result[p].Total = 0
        /\ cacheData # EmptyHash
        /\ lastRunKey > 0

(***************************************************************************)
(* C33                                                                      *)
(***************************************************************************)
\* worker i of the batch of p gets the answer of SaveProxyCache in this step
WritesEntry(p, i) ==
    /\ i \in DOMAIN workers[p]
    /\ workers[p][i].pc = "hset_updated"
    /\ i \in DOMAIN workers'[p]
    /\ workers'[p][i].pc = "done"

\* no RefreshProxyCache call is between Lock and Unlock
NoBatchInFlight == \A p \in Procs : ~InBatch(p) /\ ~Running(p)

\* every cache entry's updatedAt is at most LastRunAt
EntriesNotAfterLastRun ==
    \A u \in DOMAIN cacheUpdated : cacheUpdated[u] <= lastRunKey

\* C33: when a batch returns after its write of LastRunAt succeeded, every
\* cache entry's updatedAt is at most LastRunAt, and this stays so while no
\* batch is in flight; an entry written by a batch carries that batch's
\* refreshedAt, as does the item reported for it; and the updatedAt of a
\* url never decreases.
C33_EntriesFollowLastRun ==
    /\ [][\A p \in Procs : Writer(p) =>
             (NoBatchInFlight' /\ EntriesNotAfterLastRun')]_vars
    /\ [][(NoBatchInFlight /\ NoBatchInFlight') =>
             UNCHANGED << cacheData, cacheUpdated, lastRunKey >>]_vars
    /\ [][\A p \in Procs : \A i \in 1..3 : WritesEntry(p, i) =>
             LET u == normalizeCacheURL(normalizedURLs[p][i]) IN
             /\ cacheUpdated'[u] = refreshedAt[p]
             /\ ch'[p][Len(ch'[p])].UpdatedAt = refreshedAt[p]
             /\ << u, cacheData'[u], refreshedAt[p] >> \in saved]_vars
    /\ [][\A u \in DOMAIN cacheUpdated :
             /\ u \in DOMAIN cacheUpdated'
             /\ cacheUpdated'[u] >= cacheUpdated[u]]_vars

\* two batches at different times have returned: one entry is older than
\* LastRunAt, another carries it
C33_Witness ==
    /\ NoBatchInFlight
    /\ lastRunBatch >= 2
    /\ \E u, v \in DOMAIN cacheUpdated :
          /\ cacheUpdated[u] < lastRunKey
          /\ cacheUpdated[v] = lastRunKey

(***************************************************************************)
(* C34                                                                      *)
(***************************************************************************)
\* the current generator has built the groups of the node list `arg'
Generated == ret.called /\ ret.generator = "part_004"

\* the names, in node order, of the nodes classified into region r
RECURSIVE NamesOfRegion(_, _)
NamesOfRegion(nodes, r) ==
    IF nodes = << >> THEN << >>
    ELSE IF /\ "name" \in DOMAIN Head(nodes)
            /\ classifyProxyName(Head(nodes).name)[r]
         THEN << Head(nodes).name >> \o NamesOfRegion(Tail(nodes), r)
         ELSE NamesOfRegion(Tail(nodes), r)

\* the six regions in the order of their groups
RegionOrder == << "HK", "TW", "JP", "SG", "US", "KR" >>

\* C34: the groups come in a fixed order: the umbrella selector, the
\* auto-selector, the groups of HK, TW, JP, SG, US, KR, the per-service
\* groups, the fallback group; the group of a region is a url-test group over
\* exactly the names, in node order, of the nodes classified into the region
\* (a node may be in several) when there is one, else a selector listing the
\* auto-selector and DIRECT.
C34_GroupOrderAndRegions ==
    Generated =>
        LET g == ret.out.groups IN
        /\ Len(g) = 2 + 6 + Len(serviceGroups) + 1
        /\ g[1].name = Proxies /\ g[1].type = "select"
        /\ g[2].name = AutoSelect /\ g[2].type = "url-test"
        /\ \A k \in 1..6 :
              LET members == NamesOfRegion(arg, RegionOrder[k]) IN
              /\ g[2 + k].name = RegionGroupName[RegionOrder[k]]
              /\ IF members # << >>
                 THEN /\ g[2 + k].type = "url-test"
                      /\ g[2 + k].proxies = members
                 ELSE /\ g[2 + k].type = "select"
                      /\ g[2 + k].proxies = << AutoSelect, DIRECT >>
        /\ \A k \in 1..Len(serviceGroups) :
              /\ g[8 + k].name = serviceGroups[k].name
              /\ g[8 + k].type = "select"
        /\ g[Len(g)].name = Final /\ g[Len(g)].type = "select"

\* a node is a member of the Hong Kong group and of the US group, after
\* another Hong Kong node, and the Taiwan group has no node
C34_Witness ==
    /\ Generated
    /\ ret.out.groups[3].proxies
          = << << "H", "K" >>, << "U", "S", "-", "h", "k" >> >>
    /\ ret.out.groups[7].proxies = << << "U", "S", "-", "h", "k" >> >>
    /\ ret.out.groups[4].type = "select"

(***************************************************************************)
(* C35                                                                      *)
(***************************************************************************)
\* the per-service groups of the generated document
ServiceGroupsOf(g) == { g[8 + k] : k \in 1..Len(serviceGroups) }

\* the umbrella selector and the region groups
UmbrellaAndRegions == { Proxies } \cup { RegionGroupName[r] : r \in Regions }

GroupNames(g) == { g[k].name : k \in DOMAIN g }

\* the names of the nodes of a list
NodeNames(nodes) == Range(proxyNamesOf(nodes))

\* the members of a sequence after the first DIRECT
AfterDIRECT(members) ==
    LET first == CHOOSE i \in DOMAIN members :
                    /\ members[i] = DIRECT
                    /\ \A j \in 1..(i - 1) : members[j] # DIRECT
    IN  SubSeq(members, first + 1, Len(members))

\* the last field of a rule but for the option of an IP rule
RuleTarget(rule) ==
    IF rule[1] = "MATCH" THEN rule[2] ELSE rule[3]

\* the fallback group: the last group of the document
FallbackGroup(g) == g[Len(g)].name

\* C36: for the groups either generator builds from any node list, the empty
\* one included, every member of every group is DIRECT, the name of a
\* generated group or the name of a node; the members of the umbrella
\* selector (the first group) after DIRECT are the node names in node order;
\* and when there are rules, each targets DIRECT, REJECT or a generated group,
\* and the last one, the only MATCH rule, points at the fallback group.
C36_MembersAndRulesResolve ==
    ret.called =>
        LET g == ret.out.groups
            rules == ret.out.rules
        IN
        /\ \A k \in DOMAIN g :
              Range(g[k].proxies)
                 \subseteq { DIRECT } \cup GroupNames(g) \cup NodeNames(arg)
        /\ DIRECT \in Range(g[1].proxies)
        /\ AfterDIRECT(g[1].proxies) = proxyNamesOf(arg)
        /\ rules # << >> =>
              /\ \A i \in DOMAIN rules :
                    /\ RuleTarget(rules[i])
                          \in { DIRECT, REJECT } \cup GroupNames(g)
                    /\ rules[i][1] = "MATCH" <=> i = Len(rules)
              /\ RuleTarget(rules[Len(rules)]) = FallbackGroup(g)

\* both generators have built groups: the current one for the empty list
\* and for a list with a nameless node, the earlier one with its rule table
C36_Witness ==
    /\ ret.called
    /\ ret.generator = "part_005"
    /\ Len(ret.out.rules) > 100
    /\ ret.out.rules[Len(ret.out.rules)] = << "MATCH", Leftover >>
    /\ Len(arg) = 3
    /\ NamelessNode \in Range(arg)
    /\ Len(AfterDIRECT(ret.out.groups[1].proxies)) = 2

\* the current generator has built the groups of the empty node list
C36_WitnessEmpty ==
    /\ Generated
    /\ arg = << >>
    /\ ret.out.rules = << >>
    /\ ret.out.groups[2].proxies = << >>

(***************************************************************************)
(* C37                                                                      *)
(***************************************************************************)
\* a stored profile, decoded
StoredOverlay(name) == ParseStashProfileContent(profileHash[name]).parsed

\* the profile the requester is bound to
BoundProfile ==
    IF req.isAdmin THEN DefaultStashProfileName
    ELSE userProfileHash[req.username]

\* the items of a sequence value
Items(value) == value[2]

\* the request has been answered with a generated document
Generating(p) ==
    /\ req.stage = "answered" /\ req.status = 200 /\ pc[p] = "done"
    /\ req.body # NoSourcesWarning

\* C37: a configuration request passes the default profile first and the
\* bound profile second, the latter only for a subscriber bound to another
\* profile than the default; the overlays are merged onto the generated base
\* from left to right, so that for a key that is scalar in both profiles the
\* bound profile's value is served, and for a sequence key the bound
\* profile's items come first, then the default profile's, then the
\* generated ones.
C37_OverlayOrder ==
    \A p \in CfgProcs :
        Generating(p) =>
            LET base == BuildConfigMap(all[p])
                d == StoredOverlay(DefaultStashProfileName)
                b == StoredOverlay(BoundProfile)
            IN  /\ req.overlays =
                      IF BoundProfile = DefaultStashProfileName
                      THEN << d >> ELSE << d, b >>
                /\ req.body = IF BoundProfile = DefaultStashProfileName
                              THEN DeepMergeMap(base, d)
                              ELSE DeepMergeMap(DeepMergeMap(base, d), b)
                /\ req.body[2]["mode"] = b[2]["mode"]
                /\ Items(req.body[2]["proxies"]) =
                      IF BoundProfile = DefaultStashProfileName
                      THEN Items(d[2]["proxies"])
                              \o Items(base[2]["proxies"])
                      ELSE Items(b[2]["proxies"])
                              \o Items(d[2]["proxies"])
                              \o Items(base[2]["proxies"])

\* a subscriber bound to p1 was served: the mode is that of p1, and the
\* proxies are the item of p1, the item of the default profile and the
\* cached node
C37_Witness ==
    \E p \in CfgProcs :
        /\ Generating(p)
        /\ ~req.isAdmin /\ req.selected = "p1"
        /\ req.body[2]["mode"] = Scalar(3)
        /\ Len(Items(req.body[2]["proxies"])) = 3
        /\ Items(req.body[2]["proxies"])[1] = Map([name |-> Scalar(8 + 1)])
        /\ Items(req.body[2]["proxies"])[2] = Map([name |-> Scalar(8)])
        /\ Items(req.body[2]["proxies"])[3][1] = "node"

\* the administrator was served the default profile only
C37_WitnessAdmin ==
    \E p \in CfgProcs :
        /\ Generating(p)
        /\ req.isAdmin /\ Len(req.overlays) = 1
        /\ req.body[2]["mode"] = Scalar(2)

(***************************************************************************)
(* C38                                                                      *)
(***************************************************************************)
\* ValidateAPIToken (part_008 lines 198-210) returns a username for the token
Accepted(token) == token \in DOMAIN tokenHash /\ tokenHash[token] # ""

\* ListSubscribers (lines 85-115) lists the username, with this token
Listed(username, token) ==
    username \in DOMAIN userTokenHash /\ userTokenHash[username] = token

\* no AddSubscriber or DeleteSubscriber call is under way
NoCallInFlight == \A c \in Callers : arg[c] = NoCall

\* C38 as stated, for runs in which no store command failed: when no call is
\* under way, every token that ValidateAPIToken accepts belongs to a listed
\* subscriber whose recorded token it is, and every listed subscriber's token
\* is accepted for that subscriber.
C38_TokenMapsAreInverses ==
    (NoCallInFlight /\ events = 0) =>
        /\ \A t \in RandomTokens : Accepted(t) => Listed(tokenHash[t], t)
        /\ \A u \in Subscribers :
              u \in DOMAIN userTokenHash =>
                 /\ Accepted(userTokenHash[u])
                 /\ tokenHash[userTokenHash[u]] = u

(***************************************************************************)
(* C39                                                                      *)
(***************************************************************************)
\* the step in which the middleware lets the request with this session
\* through
PassesWith(session) ==
    /\ req.stage = "mw_admin" /\ req'.stage = "next"
    /\ req.cookie = session

\* the middleware lets a request through only when the username of its
\* session is the admin username stored when it is compared
PassesOnlyAdminSession ==
    [][\A session \in SessionTokens : PassesWith(session) =>
          /\ req.cookie \in DOMAIN sessionKeys
          /\ req.username = sessionKeys[req.cookie]
          /\ req.username = adminUsername
          /\ adminUsername' = adminUsername]_vars

\* C39: once UpdateAdminCredentials has changed the admin username from A
\* to B, the admin-protected routes let no request through whose session
\* was created under A, in any later state.
C39_FormerSessionsStayRefused ==
    [][\A session \in arg : ~PassesWith(session)]_vars

(***************************************************************************)
(* C40                                                                      *)
(***************************************************************************)
\* the payload was decoded
Decoded == ~arg.err

\* the text of the payload
Body == arg.decoded

\* the number of fields between colons before any "/?" of the payload
FieldsBeforeParams ==
    1 + Cardinality({ i \in DOMAIN Body :
                         /\ Body[i] = ":"
                         /\ \A j \in 1..(i - 1) :
                               ~(Body[j] = "/" /\ Body[j + 1] = "?") })

\* the sixth field as it stands in the payload
PasswordField ==
    LET colons == { i \in DOMAIN Body : Body[i] = ":" }
        start == CHOOSE i \in colons :
                    Cardinality({ j \in colons : j < i }) = 4
        stops == { i \in (start + 1)..Len(Body) :
                      \/ Body[i] = ":"
                      \/ i < Len(Body) /\ Body[i] = "/" /\ Body[i + 1] = "?" }
        stop == IF stops = {} THEN Len(Body) + 1
                ELSE CHOOSE i \in stops : \A j \in stops : i <= j
    IN SubSeq(Body, start + 1, stop - 1)

\* C40: parseSSR returns no node when the decoded payload has fewer than 6
\* fields between colons before any "/?", and a node whenever it has 6 or
\* more; a password field that is no base64 text gives that node an empty
\* password, one that is base64 text gives it the decoded password.
C40_SSRFieldsAndPassword ==
    (ret.called /\ Decoded) =>
        /\ FieldsBeforeParams < 6 => ret.out = nil
        /\ FieldsBeforeParams >= 6 =>
              /\ ret.out # nil
              /\ ret.out.type = "ssr"
              /\ DecodeString(padTo4(PasswordField)).err =>
                    ret.out.password = << >>
              /\ ~DecodeString(padTo4(PasswordField)).err =>
                    ret.out.password =
                        DecodeString(padTo4(PasswordField)).decoded

\* a payload of six fields whose password field is no base64 text gave a
\* node
C40_Witness ==
    /\ ret.called /\ Decoded
    /\ FieldsBeforeParams >= 6
    /\ DecodeString(padTo4(PasswordField)).err
    /\ ret.out # nil

\* a payload with five fields and colons among its parameters gave no node
C40_WitnessParams ==
    /\ ret.called /\ Decoded
    /\ FieldsBeforeParams = 5
    /\ Cardinality({ i \in DOMAIN Body : Body[i] = ":" }) >= 5
    /\ ret.out = nil

====
